---- MODULE Spec2Model ----
(***************************************************************************)
(* Workflow engine, base agent dispatch, the four concrete agents' reply   *)
(* routing and the audit log of the multi-agent communication pipeline.    *)
(*                                                                         *)
(* Python dicts are modelled as sequences of <<key, value>> pairs in       *)
(* insertion order; dict.get(k, default) is Get.  A message id that is a   *)
(* JSON array (an unhashable Python list) is encoded as ListId.            *)
(***************************************************************************)
EXTENDS Integers, Sequences, FiniteSets, TLC

VARIABLES
    agents,            \* SimpleWorkflowEngine.agents: the registered agent keys
    agent_sequence,    \* the caller's agent_sequence argument
    input_data,        \* the caller's input_data argument
    sequence,          \* the sequence the run iterates
    results,           \* the mapping the run returns
    workflow_context,  \* the run's context, holding agent_results
    idx,               \* position of the for loop in sequence (1-based)
    pc,                \* where execute_dynamic_workflow stands
    frame,             \* the agent invocation in progress
    logs,              \* DynamicAuditLogger.logs
    calls,             \* history: every finished agent invocation, in order
    events,            \* history: what the loop did at each position
    aborted,           \* history: the break of line 55 was taken
    runs,              \* several callers of one engine: each caller's run
    contexts,          \* the workflow_context["agent_results"] object of each run
    shared_logs,       \* the DynamicAuditLogger.logs list those runs share
    reader,            \* a caller of export_scenario_report on that logger
    call,              \* a single method under test and its arguments
    ret                \* what the method under test returned, call after call

engineVars == <<agents, agent_sequence, input_data, sequence, results,
                workflow_context, idx, pc, frame, logs, calls, events, aborted>>

sharedVars == <<runs, contexts, shared_logs, reader>>

methodVars == <<call, ret>>

vars == <<agents, agent_sequence, input_data, sequence, results,
          workflow_context, idx, pc, frame, logs, calls, events, aborted,
          runs, contexts, shared_logs, reader, call, ret>>

-----------------------------------------------------------------------------
(* Bounds *)

MaxSeqLen == 3

\* callers that use one engine and one audit logger
MaxRuns == 2

\* lines of a reply that is no JSON
MaxLines == 7

\* violations the model reports for one message
MaxViolations == 3

\* invocations of one agent with one and the same input
MaxRepeats == 2

\* messages handed to the compliance agent
MaxMessages == 3

-----------------------------------------------------------------------------
(* Python dict helpers *)

DictKeys(d) == [i \in 1..Len(d) |-> d[i][1]]

KeySet(d) == {d[i][1] : i \in 1..Len(d)}

HasKey(d, k) == k \in KeySet(d)

DictGet(d, k) == d[CHOOSE i \in 1..Len(d) : d[i][1] = k][2]

DictSet(d, k, v) ==
    IF HasKey(d, k)
    THEN [i \in 1..Len(d) |-> IF d[i][1] = k THEN <<k, v>> ELSE d[i]]
    ELSE Append(d, <<k, v>>)

Get(r, k, default) == IF k \in DOMAIN r THEN r[k] ELSE default

Range(s) == {s[i] : i \in 1..Len(s)}

SeqsUpTo(S, n) == UNION {[1..m -> S] : m \in 0..n}

-----------------------------------------------------------------------------
(* Keys and registries *)

BuiltIn == {"copywriter", "compliance", "feedback", "decision"}

Keys == BuiltIn \cup {"custom", "ghost"}

\* the four agents of app.py and one agent of another class
RegisteredAgents == BuiltIn \cup {"custom"}

DefaultSequence == <<"copywriter", "compliance", "feedback", "decision">>

AgentName(key) ==
    CASE key = "copywriter" -> "Dynamic Copywriter"
      [] key = "compliance" -> "Dynamic Compliance Checker"
      [] key = "feedback"   -> "Dynamic Feedback Simulator"
      [] key = "decision"   -> "Dynamic Decision Optimizer"
      [] OTHER              -> key

-----------------------------------------------------------------------------
(* The LLM gateway's response envelope and the replies the provider gives *)

\* a message id that is a JSON array, e.g. "message_id": [1]
ListId == 0 - 1

Hashable(id) == id # ListId

\* content "not json"
NotJson == [json |-> FALSE, top |-> "none", ids |-> <<>>]

\* content [{"message_id": [1], "content": "hi"}]
ListReply == [json |-> TRUE, top |-> "list", ids |-> <<ListId>>]

\* content {"recommended_message_id": 1, "confidence": 0.8,
\*          "message_analyses": [{"message_id": 1}],
\*          "message_feedback": [{"message_id": 1, "sentiment_score": 8}]}
DictReply == [json |-> TRUE, top |-> "dict", ids |-> <<1>>]

Replies == {NotJson, ListReply, DictReply}

ReplyTokens == 7

\* LLMResponse on success (generate_completion, the return of the try block)
LLMSuccess(reply) ==
    [success |-> TRUE, content |-> reply, total_tokens |-> ReplyTokens,
     error |-> "none"]

\* LLMResponse on any transport/provider failure (the except block)
LLMFailure ==
    [success |-> FALSE, content |-> NotJson, total_tokens |-> 0,
     error |-> "provider error"]

GatewayResponses == {LLMSuccess(r) : r \in Replies} \cup {LLMFailure}

-----------------------------------------------------------------------------
(* What the concrete agents read from previous_results *)

\* previous_results.get(key, {}).get('data', {})
PrevData(previous_results, key) ==
    IF HasKey(previous_results, key)
    THEN Get(DictGet(previous_results, key), "data", [none |-> TRUE])
    ELSE [none |-> TRUE]

\* ids of previous_results.copywriter.data.messages, else of input 'messages'
\* (the caller's input carries no 'messages')
UpstreamMessageIds(previous_results) ==
    Get(PrevData(previous_results, "copywriter"), "ids", <<>>)

\* ids of compliance_data.get('message_analyses', [])
ComplianceAnalysisIds(previous_results) ==
    Get(PrevData(previous_results, "compliance"), "ids", <<>>)

\* ids of feedback_data.get('message_feedback', [])
FeedbackIds(previous_results) ==
    Get(PrevData(previous_results, "feedback"), "ids", <<>>)

AllHashable(ids) == \A i \in 1..Len(ids) : Hashable(ids[i])

-----------------------------------------------------------------------------
(* _process_llm_response of the four concrete agents.                      *)
(* An outcome is [raised, route, data]: route is the handler that ran      *)
(* ("parsed": the try block, "fallback": except json.JSONDecodeError,      *)
(* "stub": except Exception), raised says an exception left the method.    *)

Returned(route, data) == [raised |-> FALSE, route |-> route, data |-> data]

Raised(route) == [raised |-> TRUE, route |-> route, data |-> [none |-> TRUE]]

\* the payload of the `except Exception` handlers: fixed defaults and an
\* 'error' string, no items
StubData == [path |-> "stub", ids |-> <<>>, error |-> TRUE]

\* _fallback_message_parsing pads the recovered messages up to this many
MinFallbackMessages == 3

\* messages _fallback_message_parsing recovers from the text "not json":
\* one line, no '{' or '[' prefix, no keyword, so one message
RecoveredFromNotJson == <<1>>

Max(a, b) == IF a >= b THEN a ELSE b

\* DynamicCopywriterAgent._fallback_message_parsing: ids are len(messages)+1
fallback_message_parsing(recovered) ==
    [path |-> "fallback",
     ids |-> [i \in 1..Max(Len(recovered), MinFallbackMessages) |-> i],
     error |-> FALSE]

\* faulty variant: a reply of the wrong top-level shape is handed to the fallback parser
copywriter_wrong_shape_to_fallback(content, previous_results) ==
    IF ~content.json \/ content.top # "list"
    THEN Returned("fallback", fallback_message_parsing(RecoveredFromNotJson))
    ELSE Returned("parsed", [path |-> "parsed", ids |-> content.ids, error |-> FALSE])

\* DynamicCopywriterAgent._process_llm_response
copywriter_process_llm_response(content, previous_results) ==
    IF ~content.json
    THEN Returned("fallback", fallback_message_parsing(RecoveredFromNotJson))
    ELSE IF content.top # "list"
    THEN Returned("stub", StubData)
    ELSE Returned("parsed", [path |-> "parsed", ids |-> content.ids, error |-> FALSE])

\* DynamicComplianceAgent._fallback_compliance_analysis: one analysis per
\* upstream message, message.get('message_id', i+1)
fallback_compliance_analysis(previous_results) ==
    [path |-> "fallback", ids |-> UpstreamMessageIds(previous_results), error |-> FALSE]

\* DynamicComplianceAgent._process_llm_response
compliance_process_llm_response(content, previous_results) ==
    IF ~content.json
    THEN Returned("fallback", fallback_compliance_analysis(previous_results))
    ELSE IF content.top # "dict"
    THEN Returned("stub", StubData)
    ELSE Returned("parsed", [path |-> "parsed", ids |-> content.ids, error |-> FALSE])

\* DynamicFeedbackAgent._fallback_feedback_analysis
fallback_feedback_analysis(previous_results) ==
    [path |-> "fallback", ids |-> UpstreamMessageIds(previous_results), error |-> FALSE]

\* DynamicFeedbackAgent._process_llm_response
feedback_process_llm_response(content, previous_results) ==
    IF ~content.json
    THEN Returned("fallback", fallback_feedback_analysis(previous_results))
    ELSE IF content.top # "dict"
    THEN Returned("stub", StubData)
    ELSE Returned("parsed", [path |-> "parsed", ids |-> content.ids, error |-> FALSE])

\* feedback_lookup[f['message_id']] = f and feedback_lookup.get(message_id, {})
\* hash every id: a list id raises TypeError
LookupRaises(previous_results) ==
    \/ ~AllHashable(FeedbackIds(previous_results))
    \/ ~AllHashable(ComplianceAnalysisIds(previous_results))

\* DynamicDecisionAgent._fallback_decision_analysis
FallbackDecisionRaises(previous_results) == LookupRaises(previous_results)

\* the try block of DynamicDecisionAgent._process_llm_response raises when
\*  - the recommended id is not among the analyses: message_analyses.get(..)
\*    on a list (line 214);
\*  - the reply has no ranking and _calculate_message_ranking hashes a list id;
\*  - the ranking has two entries or more: ranking.get(..) on a list (line 516)
EnhanceDecisionRaises(content, previous_results) ==
    LET analyses == ComplianceAnalysisIds(previous_results)
        recommended == content.ids[1]
    IN  \/ analyses # <<>> /\ recommended \notin Range(analyses)
        \/ analyses # <<>> /\ LookupRaises(previous_results)
        \/ Len(analyses) >= 2

\* DynamicDecisionAgent._process_llm_response: the fallback runs inside the
\* except json.JSONDecodeError handler, so what it raises is not caught by the
\* except Exception clause beside it
decision_process_llm_response(content, previous_results) ==
    IF ~content.json
    THEN IF FallbackDecisionRaises(previous_results)
         THEN Raised("fallback")
         ELSE Returned("fallback", [path |-> "fallback", ids |-> <<>>, error |-> FALSE])
    ELSE IF content.top # "dict"
    THEN Returned("stub", StubData)
    ELSE IF EnhanceDecisionRaises(content, previous_results)
    THEN Returned("stub", StubData)
    ELSE Returned("parsed", [path |-> "parsed", ids |-> <<>>, error |-> FALSE])

\* self._process_llm_response, dispatched on the agent's class
process_llm_response(agent_key, content, previous_results) ==
    CASE agent_key = "copywriter" -> copywriter_process_llm_response(content, previous_results)
      [] agent_key = "compliance" -> compliance_process_llm_response(content, previous_results)
      [] agent_key = "feedback"   -> feedback_process_llm_response(content, previous_results)
      [] agent_key = "decision"   -> decision_process_llm_response(content, previous_results)

\* the caller's input: business_objectives absent, or a list holding a number
InputChoices == {[business_objectives |-> "absent"],
                 [business_objectives |-> "non_strings"]}

\* _generate_dynamic_system_prompt and _generate_dynamic_user_prompt: only the
\* decision agent's objective.strip() raises, on an objective that is no string
PromptRenderingRaises(agent_key, input) ==
    agent_key = "decision" /\ input.business_objectives = "non_strings"

-----------------------------------------------------------------------------
(* BaseDynamicAgent.process_dynamic *)

\* faulty variant: only the gateway's reported failure is converted into a result
CatchesOnlyGatewayFailure(where) == where = "gateway"

\* `except Exception as e` of process_dynamic catches whatever the try raised
CatchesException(where) == TRUE

\* the result of the try block
SuccessResult(agent_key, data, llm_response) ==
    [success |-> TRUE, agent_name |-> AgentName(agent_key), data |-> data,
     tokens_used |-> llm_response.total_tokens, agent_key |-> agent_key]

\* faulty variant: the error result is marked critical
CriticalErrorResult(agent_key, exc) ==
    [success |-> FALSE, agent_name |-> AgentName(agent_key), error |-> exc,
     tokens_used |-> 0, critical |-> TRUE]

\* error_result of the except block
ErrorResult(agent_key, exc) ==
    [success |-> FALSE, agent_name |-> AgentName(agent_key), error |-> exc,
     tokens_used |-> 0]

\* faulty variant: the entry keeps the parameter's default, success=True
log_with_default_success(store, agent_name, output_data, success) ==
    Append(store, [agent_name |-> agent_name, output_data |-> output_data,
                   success |-> TRUE])

\* DynamicAuditLogger.log_dynamic_execution: one AuditLogEntry appended
log_dynamic_execution(store, agent_name, output_data, success) ==
    Append(store, [agent_name |-> agent_name, output_data |-> output_data,
                   success |-> success])

\* results a registered agent that is none of the four may return
CustomResults == [success : BOOLEAN] \cup [success : BOOLEAN, critical : BOOLEAN]

NoFrame ==
    [key |-> "none", pos |-> 0, step |-> "idle", previous_results |-> <<>>,
     llm_response |-> LLMFailure, route |-> "none", exc |-> "none",
     result |-> [none |-> TRUE], trace |-> <<>>, logs_before |-> 0]

\* the exception leaves the try block at `where`
Throw(f, where, exc) ==
    IF CatchesException(where)
    THEN [f EXCEPT !.step = "failed", !.exc = exc]
    ELSE [f EXCEPT !.step = "raised", !.exc = exc]

-----------------------------------------------------------------------------
(* SimpleWorkflowEngine.execute_dynamic_workflow *)

\* sequence = agent_sequence or [default]
EffectiveSequence(arg) ==
    IF arg.given /\ arg.keys # <<>> THEN arg.keys ELSE DefaultSequence

\* entry recorded for a key that is no registered agent
UnknownEntry == [success |-> FALSE, error |-> "Agent not available"]

\* entry recorded by the engine's except clause
ExceptionEntry(agent_name, exc) ==
    [success |-> FALSE, error |-> exc, agent_name |-> agent_name]

\* faulty variant: any unsuccessful result stops the workflow
IsAnyFailure(response) == ~Get(response, "success", FALSE)

\* not response.get("success", False) and response.get("critical", False)
IsCriticalFailure(response) ==
    ~Get(response, "success", FALSE) /\ Get(response, "critical", FALSE)

\* sum(1 for r in results.values() if r.get("success", False))
SuccessfulAgents(res) ==
    Cardinality({i \in 1..Len(res) : Get(res[i][2], "success", FALSE)})

WorkflowSummary(seq, res) ==
    [total_agents |-> Len(seq), successful_agents |-> SuccessfulAgents(res),
     sequence_used |-> seq]

\* faulty variant: the response is stored in results only
StoreInResultsOnly(res, ctx, agent_name, response) ==
    [results |-> DictSet(res, agent_name, response),
     workflow_context |-> ctx]

\* results[agent_name] = response; workflow_context["agent_results"][agent_name] = response
StoreResponse(res, ctx, agent_name, response) ==
    [results |-> DictSet(res, agent_name, response),
     workflow_context |-> [ctx EXCEPT !.agent_results = DictSet(@, agent_name, response)]]

\* a caller that has not called the engine yet
IdleRun ==
    [mode |-> "none", scenario |-> "none", sequence |-> <<>>, idx |-> 0,
     pc |-> "idle", view |-> <<>>, results |-> <<>>]

\* export_scenario_report has not been called
IdleReader ==
    [pc |-> "idle", scenario |-> "none", analytics |-> [none |-> TRUE],
     detailed_logs |-> <<>>, seen |-> <<>>]

Runs == 1..MaxRuns

\* nobody else uses the engine or reads the audit log
SharedIdle ==
    /\ runs = [r \in Runs |-> IdleRun]
    /\ contexts = [r \in Runs |-> <<>>]
    /\ shared_logs = <<>>
    /\ reader = IdleReader

NoCall == [method |-> "none"]

MethodIdle ==
    /\ call = NoCall
    /\ ret = <<>>

Init ==
    /\ SharedIdle
    /\ MethodIdle
    /\ agents = RegisteredAgents
    /\ agent_sequence \in
         {[given |-> FALSE, keys |-> <<>>]} \cup
         {[given |-> TRUE, keys |-> k] : k \in SeqsUpTo(Keys, MaxSeqLen)}
    /\ input_data \in InputChoices
    /\ sequence = <<>>
    /\ results = <<>>
    /\ workflow_context = [agent_results |-> <<>>]
    /\ idx = 0
    /\ pc = "entry"
    /\ frame = NoFrame
    /\ logs = <<>>
    /\ calls = <<>>
    /\ events = <<>>
    /\ aborted = FALSE

\* lines 19-26
Begin ==
    /\ pc = "entry"
    /\ sequence' = EffectiveSequence(agent_sequence)
    /\ results' = <<>>
    /\ workflow_context' = [agent_results |-> <<>>]
    /\ idx' = 1
    /\ pc' = "loop"
    /\ UNCHANGED <<sharedVars, methodVars, agents, agent_sequence, input_data, frame, logs, calls, events, aborted>>

\* faulty variant: `break` in place of `continue`
AfterUnknownKeyBreak(i) == [pc |-> "summary", idx |-> i]

\* line 34, `continue`: the loop goes on with the next key
AfterUnknownKey(i) == [pc |-> "loop", idx |-> i + 1]

\* lines 29-34: the key is no registered agent
UnknownAgent ==
    /\ pc = "loop"
    /\ idx <= Len(sequence)
    /\ sequence[idx] \notin agents
    /\ results' = DictSet(results, sequence[idx], UnknownEntry)
    /\ events' = Append(events, [pos |-> idx, key |-> sequence[idx], kind |-> "unknown"])
    /\ idx' = AfterUnknownKey(idx).idx
    /\ pc' = AfterUnknownKey(idx).pc
    /\ UNCHANGED <<sharedVars, methodVars, agents, agent_sequence, input_data, sequence, workflow_context,
                   frame, logs, calls, aborted>>

\* faulty variant: the agent is handed an empty mapping
PreviousResultsEmpty(ctx) == <<>>

\* line 43: "previous_results": workflow_context["agent_results"]
PreviousResultsView(ctx) == ctx.agent_results

\* lines 36-47 and process_dynamic lines 21-29: the agent is called with
\* previous_results = workflow_context["agent_results"] and renders its prompts
Invoke ==
    /\ pc = "loop"
    /\ idx <= Len(sequence)
    /\ sequence[idx] \in agents
    /\ LET f == [NoFrame EXCEPT !.key = sequence[idx], !.pos = idx,
                                !.previous_results = PreviousResultsView(workflow_context),
                                !.logs_before = Len(logs)]
       IN  frame' =
             IF sequence[idx] \notin BuiltIn
             THEN [f EXCEPT !.step = "custom"]
             ELSE IF PromptRenderingRaises(sequence[idx], input_data)
             THEN [Throw(f, "render", "prompt rendering failed") EXCEPT !.trace = <<"render">>]
             ELSE [f EXCEPT !.step = "rendered", !.trace = <<"render">>]
    /\ events' = Append(events, [pos |-> idx, key |-> sequence[idx], kind |-> "invoked"])
    /\ pc' = "await"
    /\ UNCHANGED <<sharedVars, methodVars, agents, agent_sequence, input_data, sequence, results,
                   workflow_context, idx, logs, calls, aborted>>

\* line 32: the request goes to the gateway and process_dynamic suspends
CallGateway ==
    /\ frame.step = "rendered"
    /\ frame' = [frame EXCEPT !.step = "awaiting", !.trace = Append(@, "gateway")]
    /\ UNCHANGED <<sharedVars, methodVars, agents, agent_sequence, input_data, sequence, results,
                   workflow_context, idx, pc, logs, calls, events, aborted>>

\* the provider answers, or the call fails: generate_completion returns
GatewayRespond ==
    /\ frame.step = "awaiting"
    /\ \E r \in GatewayResponses :
         frame' = [frame EXCEPT !.step = "responded", !.llm_response = r]
    /\ UNCHANGED <<sharedVars, methodVars, agents, agent_sequence, input_data, sequence, results,
                   workflow_context, idx, pc, logs, calls, events, aborted>>

\* lines 40-64: the gateway's failure is raised; else the reply is processed
\* and the result assembled
ProcessResponse ==
    /\ frame.step = "responded"
    /\ LET f == [frame EXCEPT !.trace = Append(@, "process")]
           out == process_llm_response(frame.key, frame.llm_response.content,
                                       frame.previous_results)
       IN  frame' =
             IF ~frame.llm_response.success
             THEN Throw(frame, "gateway", "LLM call failed")
             ELSE IF out.raised
             THEN [Throw(f, "process", "unhashable type") EXCEPT !.route = out.route]
             ELSE [f EXCEPT !.step = "built", !.route = out.route,
                            !.result = SuccessResult(frame.key, out.data, frame.llm_response)]
    /\ UNCHANGED <<sharedVars, methodVars, agents, agent_sequence, input_data, sequence, results,
                   workflow_context, idx, pc, logs, calls, events, aborted>>

\* lines 67-76: the result of the try block is logged with success=True
LogSuccess ==
    /\ frame.step = "built"
    /\ logs' = log_dynamic_execution(logs, AgentName(frame.key), frame.result, TRUE)
    /\ frame' = [frame EXCEPT !.step = "logged", !.trace = Append(@, "log")]
    /\ UNCHANGED <<sharedVars, methodVars, agents, agent_sequence, input_data, sequence, results,
                   workflow_context, idx, pc, calls, events, aborted>>

\* lines 80-102: error_result is built and logged with success=False
LogError ==
    /\ frame.step = "failed"
    /\ LET error_result == ErrorResult(frame.key, frame.exc)
       IN  /\ logs' = log_dynamic_execution(logs, AgentName(frame.key), error_result, FALSE)
           /\ frame' = [frame EXCEPT !.step = "logged", !.result = error_result,
                                     !.trace = Append(@, "log")]
    /\ UNCHANGED <<sharedVars, methodVars, agents, agent_sequence, input_data, sequence, results,
                   workflow_context, idx, pc, calls, events, aborted>>

\* an agent that is none of the four returns some result
CustomReturn ==
    /\ frame.step = "custom"
    /\ \E r \in CustomResults :
         frame' = [frame EXCEPT !.step = "logged", !.result = r]
    /\ UNCHANGED <<sharedVars, methodVars, agents, agent_sequence, input_data, sequence, results,
                   workflow_context, idx, pc, logs, calls, events, aborted>>

\* an agent that is none of the four raises
CustomRaise ==
    /\ frame.step = "custom"
    /\ frame' = [frame EXCEPT !.step = "raised", !.exc = "custom agent raised"]
    /\ UNCHANGED <<sharedVars, methodVars, agents, agent_sequence, input_data, sequence, results,
                   workflow_context, idx, pc, logs, calls, events, aborted>>

CallRecord(f, raised) ==
    [pos |-> f.pos, key |-> f.key, previous_results |-> f.previous_results,
     llm_response |-> f.llm_response, gateway_called |-> "gateway" \in Range(f.trace),
     route |-> f.route, exc |-> f.exc, raised |-> raised, result |-> f.result,
     trace |-> f.trace, logs_before |-> f.logs_before, logs_after |-> Len(logs)]

\* process_dynamic returns (lines 78, 104); engine lines 48-55
Return ==
    /\ pc = "await"
    /\ frame.step = "logged"
    /\ LET stored == StoreResponse(results, workflow_context, frame.key, frame.result)
       IN  /\ results' = stored.results
           /\ workflow_context' = stored.workflow_context
    /\ calls' = Append(calls, CallRecord([frame EXCEPT !.trace = Append(@, "return")], FALSE))
    /\ IF IsCriticalFailure(frame.result)
       THEN /\ pc' = "summary"
            /\ aborted' = TRUE
            /\ idx' = idx
       ELSE /\ pc' = "loop"
            /\ aborted' = aborted
            /\ idx' = idx + 1
    /\ frame' = NoFrame
    /\ UNCHANGED <<sharedVars, methodVars, agents, agent_sequence, input_data, sequence, logs, events>>

\* lines 57-62: the engine catches what the agent raised
CatchException ==
    /\ pc = "await"
    /\ frame.step = "raised"
    /\ results' = DictSet(results, frame.key, ExceptionEntry(frame.key, frame.exc))
    /\ calls' = Append(calls, CallRecord(frame, TRUE))
    /\ pc' = "loop"
    /\ idx' = idx + 1
    /\ frame' = NoFrame
    /\ UNCHANGED <<sharedVars, methodVars, agents, agent_sequence, input_data, sequence, workflow_context,
                   logs, events, aborted>>

\* lines 64-73
Finish ==
    /\ \/ pc = "loop" /\ idx > Len(sequence)
       \/ pc = "summary"
    /\ results' = DictSet(results, "workflow_summary", WorkflowSummary(sequence, results))
    /\ pc' = "done"
    /\ UNCHANGED <<sharedVars, methodVars, agents, agent_sequence, input_data, sequence, workflow_context,
                   idx, frame, logs, calls, events, aborted>>

Next ==
    \/ Begin
    \/ UnknownAgent
    \/ Invoke
    \/ CallGateway
    \/ GatewayRespond
    \/ ProcessResponse
    \/ LogSuccess
    \/ LogError
    \/ CustomReturn
    \/ CustomRaise
    \/ Return
    \/ CatchException
    \/ Finish

Spec == Init /\ [][Next]_vars

\* the event loop runs every step that can run; every gateway call returns
FairSpec == Spec /\ WF_vars(Next)

-----------------------------------------------------------------------------
(* Several callers of one engine, its agents and its audit logger, and a    *)
(* caller of export_scenario_report.  A caller either runs a workflow       *)
(* (mode "engine") or calls one agent's process_dynamic itself (mode        *)
(* "direct", an input without workflow_context).  Coroutines are left only  *)
(* at the gateway call; the reader runs in a thread of its own.             *)

Scenarios == {"insurance_renewal", "healthcare_reminder"}

\* the sequences of app.py (copywriter only, compliance only) and both
SharedSequences == {<<"copywriter">>, <<"compliance">>, <<"copywriter", "compliance">>}

RunChoices ==
    {[IdleRun EXCEPT !.mode = "engine", !.scenario = sc, !.sequence = q] :
        sc \in {"insurance_renewal"}, q \in SharedSequences}
    \cup
    {[IdleRun EXCEPT !.mode = "direct", !.scenario = sc, !.sequence = <<k>>] :
        sc \in Scenarios, k \in {"copywriter"}}

\* callers are interchangeable, so their choices are taken in one order only
ChoiceRank(c) ==
    (IF c.mode = "engine" THEN 0 ELSE 2) + Len(c.sequence)
      + (IF c.scenario = "healthcare_reminder" THEN 1 ELSE 0)

\* the result object, told apart from the results of other runs by r (its
\* metadata.timestamp and performance.processing_time in the code)
ResultOf(res, r) ==
    [f \in DOMAIN res \cup {"run"} |-> IF f = "run" THEN r ELSE res[f]]

\* faulty variant: the engine keeps one agent_results mapping for all runs
InheritedAgentResults(ctxs, r) == ctxs[IF r = 1 THEN MaxRuns ELSE r - 1]

\* lines 22-26: "agent_results": {}
NewAgentResults(ctxs, r) == <<>>

\* AuditLogEntry(...): input_data is copied at its top level only, so the
\* entry refers to the run's workflow_context object (ref 0: the input has
\* none); at_append is the previous_results that object held when logged
AuditLogEntry(agent_name, scenario, context_ref, previous_results, output_data, success) ==
    [agent_name |-> agent_name, scenario |-> scenario,
     input_data |-> [workflow_context |-> context_ref],
     at_append |-> [previous_results |-> previous_results],
     output_data |-> output_data, success |-> success]

\* faulty variant: the entry is written over the last one
ListOverwriteLast(list, entry) ==
    IF list = <<>> THEN <<entry>> ELSE [list EXCEPT ![Len(list)] = entry]

\* self.logs.append(entry)
ListAppend(list, entry) == Append(list, entry)

\* entry.input_data["previous_results"] as it reads now
EntryPreviousResults(entry) ==
    IF entry.input_data.workflow_context = 0
    THEN <<>>
    ELSE contexts[entry.input_data.workflow_context]

\* workflow_context["start_time"] is a datetime
HasDatetime(entry) == entry.input_data.workflow_context # 0

\* [log for log in self.logs if log.scenario == scenario]
ScenarioLogs(list, scenario) ==
    LET OfScenario(e) == e.scenario = scenario
    IN  SelectSeq(list, OfScenario)

CountSuccess(list) == Cardinality({i \in 1..Len(list) : list[i].success})

\* _get_agent_performance: executions and successes by agent name
AgentPerformance(list) ==
    [a \in {list[i].agent_name : i \in 1..Len(list)} |->
        LET OfAgent(e) == e.agent_name = a
            mine == SelectSeq(list, OfAgent)
        IN  [executions |-> Len(mine), successes |-> CountSuccess(mine)]]

\* get_scenario_analytics: {} if the scenario has no entry; success_rate is
\* kept as <<successes, executions>>
get_scenario_analytics(list, scenario) ==
    LET scenario_logs == ScenarioLogs(list, scenario)
    IN  IF scenario_logs = <<>>
        THEN [none |-> TRUE]
        ELSE [total_executions |-> Len(scenario_logs),
              success_rate |-> <<CountSuccess(scenario_logs), Len(scenario_logs)>>,
              agent_performance |-> AgentPerformance(scenario_logs)]

\* scenario_logs[-10:]
DetailedLogLimit == 10

LastN(list, n) ==
    IF Len(list) <= n THEN list ELSE SubSeq(list, Len(list) - n + 1, Len(list))

\* the run followed step by step is not started
EngineAtRest ==
    /\ agents = RegisteredAgents
    /\ agent_sequence = [given |-> FALSE, keys |-> <<>>]
    /\ input_data = [business_objectives |-> "absent"]
    /\ sequence = <<>>
    /\ results = <<>>
    /\ workflow_context = [agent_results |-> <<>>]
    /\ idx = 0
    /\ pc = "entry"
    /\ frame = NoFrame
    /\ logs = <<>>
    /\ calls = <<>>
    /\ events = <<>>
    /\ aborted = FALSE

SharedInit ==
    /\ MethodIdle
    /\ EngineAtRest
    /\ runs \in [Runs -> RunChoices]
    /\ \A r \in Runs : r < MaxRuns => ChoiceRank(runs[r]) <= ChoiceRank(runs[r + 1])
    /\ contexts = [r \in Runs |-> <<>>]
    /\ shared_logs = <<>>
    /\ reader \in {[IdleReader EXCEPT !.scenario = sc] : sc \in {"insurance_renewal"}}

\* previous_results of the agent input: the run's own agent_results (line
\* 43); a direct call's input has none
ViewOf(run, ctxs, r) ==
    IF run.mode = "engine"
    THEN PreviousResultsView([agent_results |-> ctxs[r]])
    ELSE <<>>

\* the caller calls execute_dynamic_workflow (lines 19-47) or process_dynamic
\* (lines 21-38): the first agent is invoked and awaits the gateway
StartRun(r) ==
    /\ runs[r].pc = "idle"
    /\ contexts' = [contexts EXCEPT ![r] = NewAgentResults(contexts, r)]
    /\ runs' = [runs EXCEPT ![r].pc = "await", ![r].idx = 1,
                            ![r].view = ViewOf(runs[r], contexts', r)]
    /\ UNCHANGED <<engineVars, methodVars, shared_logs, reader>>

\* process_dynamic lines 40-104 and engine lines 48-73: the gateway returned;
\* the result is built, logged, returned and stored; then the next agent is
\* invoked and awaits the gateway, or the run returns
RunResume(r) ==
    /\ runs[r].pc = "await"
    /\ \E llm_response \in {LLMSuccess(NotJson), LLMFailure} :
         LET agent_key == runs[r].sequence[runs[r].idx]
             out == process_llm_response(agent_key, llm_response.content, runs[r].view)
             result == ResultOf(IF ~llm_response.success
                                THEN ErrorResult(agent_key, "LLM call failed")
                                ELSE IF out.raised
                                THEN ErrorResult(agent_key, "unhashable type")
                                ELSE SuccessResult(agent_key, out.data, llm_response), r)
             entry == AuditLogEntry(AgentName(agent_key), runs[r].scenario,
                                    IF runs[r].mode = "engine" THEN r ELSE 0,
                                    runs[r].view, result, result.success)
             returned == DictSet(runs[r].results, agent_key, result)
         IN  /\ shared_logs' = ListAppend(shared_logs, entry)
             /\ contexts' = IF runs[r].mode = "engine"
                            THEN [contexts EXCEPT ![r] = DictSet(@, agent_key, result)]
                            ELSE contexts
             /\ runs' =
                  IF runs[r].idx < Len(runs[r].sequence)
                  THEN [runs EXCEPT ![r].idx = @ + 1,
                                    ![r].results = returned,
                                    ![r].view = ViewOf(runs[r], contexts', r)]
                  ELSE [runs EXCEPT ![r].pc = "done",
                                    ![r].idx = @ + 1,
                                    ![r].results =
                                       IF runs[r].mode = "engine"
                                       THEN DictSet(returned, "workflow_summary",
                                                    WorkflowSummary(runs[r].sequence, returned))
                                       ELSE returned]
    /\ UNCHANGED <<engineVars, methodVars, reader>>

\* export_scenario_report line 102
ReaderAnalytics ==
    /\ reader.pc = "idle"
    /\ reader' = [reader EXCEPT !.pc = "analysed",
                                !.analytics = get_scenario_analytics(shared_logs, reader.scenario)]
    /\ UNCHANGED <<engineVars, methodVars, runs, contexts, shared_logs>>

\* export_scenario_report lines 103-110
ReaderCollect ==
    /\ reader.pc = "analysed"
    /\ reader' = [reader EXCEPT !.pc = "collected",
                                !.seen = ScenarioLogs(shared_logs, reader.scenario),
                                !.detailed_logs =
                                    LastN(ScenarioLogs(shared_logs, reader.scenario),
                                          DetailedLogLimit)]
    /\ UNCHANGED <<engineVars, methodVars, runs, contexts, shared_logs>>

\* export_scenario_report line 112: json.dumps raises TypeError on a datetime
ReaderSerialize ==
    /\ reader.pc = "collected"
    /\ reader' = [reader EXCEPT !.pc =
                    IF \E i \in 1..Len(reader.detailed_logs) : HasDatetime(reader.detailed_logs[i])
                    THEN "raised" ELSE "returned"]
    /\ UNCHANGED <<engineVars, methodVars, runs, contexts, shared_logs>>

SharedNext ==
    \/ \E r \in Runs : StartRun(r)
    \/ \E r \in Runs : RunResume(r)
    \/ ReaderAnalytics
    \/ ReaderCollect
    \/ ReaderSerialize

SharedSpec == SharedInit /\ [][SharedNext]_vars

-----------------------------------------------------------------------------
(* Single methods, called on inputs drawn from bounded sets *)

DictGetOr(d, k, default) == IF HasKey(d, k) THEN DictGet(d, k) ELSE default

\* {**a, **b}: the keys of a keep their place, new keys of b follow
RECURSIVE DictMerge(_, _)
DictMerge(a, b) ==
    IF b = <<>> THEN a
    ELSE DictMerge(DictSet(a, Head(b)[1], Head(b)[2]), Tail(b))

\* faulty variant: base_adaptations.update(agent_adaptations)
ConfigAfterUpdate(base_adaptations, agent_adaptations) ==
    DictMerge(base_adaptations, agent_adaptations)

\* self.config.dynamic_adaptations after line 114: the merge builds a new dict
ConfigAfterMerge(base_adaptations, agent_adaptations) == base_adaptations

\* BaseDynamicAgent._get_scenario_adaptations, with what it leaves in the
\* agent's config and in the scenario table
get_scenario_adaptations(table, base_adaptations, scenario, agent_key) ==
    LET scenario_config == DictGetOr(table, scenario, <<>>)
        agent_adaptations ==
            DictGetOr(DictGetOr(scenario_config, "agent_adaptations", <<>>), agent_key, <<>>)
    IN  [adaptations |-> DictMerge(base_adaptations, agent_adaptations),
         dynamic_adaptations |-> ConfigAfterMerge(base_adaptations, agent_adaptations),
         scenarios |-> table]

AdaptationKeys == {"focus", "risk_threshold"}

\* every dict over AdaptationKeys, in every key order, with values tagged v
AdaptationDicts(v) ==
    {<<>>} \cup {<<<<k, v>>>> : k \in AdaptationKeys}
           \cup {<<<<k[1], v>>, <<k[2], v>>>> :
                    k \in {q \in AdaptationKeys \X AdaptationKeys : q[1] # q[2]}}

\* a SCENARIOS table with one scenario: without agent_adaptations, with
\* adaptations for another agent only, or with adaptations for the agent
ScenarioTable(kind, agent_key, overrides) ==
    CASE kind = "no_adaptations" ->
           <<<<"financial_renewal", <<<<"name", "Financial Services Renewal">>>>>>>>
      [] kind = "other_agent" ->
           <<<<"financial_renewal", <<<<"agent_adaptations", <<<<"other", overrides>>>>>>>>>>>>
      [] kind = "this_agent" ->
           <<<<"financial_renewal", <<<<"agent_adaptations", <<<<agent_key, overrides>>>>>>>>>>>>

AdaptationCalls ==
    {[method |-> "get_scenario_adaptations", agent_key |-> "copywriter",
      scenario |-> sc, kind |-> kind, overrides |-> ov,
      table |-> ScenarioTable(kind, "copywriter", ov), base |-> b] :
        sc \in {"financial_renewal", "insurance_renewal"},
        kind \in {"no_adaptations", "other_agent", "this_agent"},
        ov \in AdaptationDicts("scenario"), b \in AdaptationDicts("base")}

\* Optional[str]: None, or a string
NoError == [is_none |-> TRUE, text |-> ""]

ErrorText(text) == [is_none |-> FALSE, text |-> text]

\* what the provider call does: it returns a completion, returns one without
\* text, returns no choice, or raises one of the client's errors
ProviderOutcomes ==
    {[kind |-> "completion", content |-> c, prompt_tokens |-> 5, completion_tokens |-> 2] :
        c \in {"not json", "[]"}}
    \cup {[kind |-> "raises", message |-> m] :
            m \in {"Connection error.", "Request timed out.", "Error code: 429"}}
    \cup {[kind |-> "no_content", message |-> "content: none is not an allowed value"],
          [kind |-> "no_choices", message |-> "list index out of range"]}

\* faulty variant: the failure response carries no error
FailureResponseWithoutError(message) ==
    [success |-> FALSE, content |-> "",
     usage |-> [total_tokens |-> 0, prompt_tokens |-> 0, completion_tokens |-> 0],
     error |-> NoError]

\* the LLMResponse of the except block (lines 69-76 and 121-128)
FailureResponse(message) ==
    [success |-> FALSE, content |-> "",
     usage |-> [total_tokens |-> 0, prompt_tokens |-> 0, completion_tokens |-> 0],
     error |-> ErrorText(message)]

\* the LLMResponse of the try block (lines 55-65 and 107-117)
SuccessResponse(outcome) ==
    [success |-> TRUE, content |-> outcome.content,
     usage |-> [total_tokens |-> outcome.prompt_tokens + outcome.completion_tokens,
                prompt_tokens |-> outcome.prompt_tokens,
                completion_tokens |-> outcome.completion_tokens],
     error |-> NoError]

\* EnhancedLLMClient.generate_completion: whatever the try block raises is an
\* Exception and is turned into the failure response
generate_completion(outcome) ==
    IF outcome.kind = "completion" THEN SuccessResponse(outcome)
    ELSE FailureResponse(outcome.message)

\* EnhancedLLMClient.generate_completion_sync: the same body without await
generate_completion_sync(outcome) ==
    IF outcome.kind = "completion" THEN SuccessResponse(outcome)
    ELSE FailureResponse(outcome.message)

GatewayCalls ==
    {[method |-> m, outcome |-> o] :
        m \in {"generate_completion", "generate_completion_sync"}, o \in ProviderOutcomes}

\* a line of a reply that is no JSON, by what the fallback parser makes of it:
\*   "skipped": empty, or starting with '{' or '['      e.g. "{oops"
\*   "word":    holds 'message' or 'option'             e.g. "Option A:"
\*   "one":     holds the digit 1 and no such word      e.g. "1. Hello"
\*   "plain":   none of these                           e.g. "Renew today"
LineKinds == {"skipped", "word", "one", "plain"}

\* any(keyword in line.lower() for keyword in ['message', 'option', str(message_id)])
IsKeywordLine(line, message_id) ==
    line = "word" \/ (line = "one" /\ message_id = 1)

FallbackParsed(messages) ==
    Append(messages, [message_id |-> Len(messages) + 1, features |-> <<"fallback_parsed">>])

\* the for loop of _fallback_message_parsing (lines 132-146) and the `if
\* current_message` after it; current says current_message is not empty
RECURSIVE ScanLines(_, _, _, _)
ScanLines(lines, messages, current, message_id) ==
    IF lines = <<>>
    THEN IF current THEN FallbackParsed(messages) ELSE messages
    ELSE IF Head(lines) = "skipped"
    THEN ScanLines(Tail(lines), messages, current, message_id)
    ELSE IF IsKeywordLine(Head(lines), message_id)
    THEN ScanLines(Tail(lines),
                   IF current THEN FallbackParsed(messages) ELSE messages,
                   FALSE, message_id + 1)
    ELSE ScanLines(Tail(lines), messages, TRUE, message_id)

\* faulty variant: nothing is added to the recovered messages
PadNothing(messages) == messages

\* while len(messages) < 3: append an auto_generated message
RECURSIVE PadMessages(_)
PadMessages(messages) ==
    IF Len(messages) >= MinFallbackMessages THEN messages
    ELSE PadMessages(Append(messages, [message_id |-> Len(messages) + 1,
                                       features |-> <<"auto_generated">>]))

\* DynamicCopywriterAgent._fallback_message_parsing on the reply's lines
fallback_parse_lines(lines) ==
    LET messages == PadMessages(ScanLines(lines, <<>>, FALSE, 1))
    IN  [messages |-> messages, total_generated |-> Len(messages),
         parsing_method |-> "fallback"]

FallbackCalls ==
    {[method |-> "fallback_message_parsing", lines |-> l, num_messages |-> n] :
        l \in SeqsUpTo(LineKinds, MaxLines), n \in {1, 5}}

Severities == {"HIGH", "MEDIUM", "LOW", "INFO"}

\* severity of the rules of self.base_compliance_rules, in list order
RuleSeverities(rule_set) ==
    CASE rule_set = "financial_services" -> <<"HIGH", "MEDIUM", "HIGH">>
      [] rule_set = "healthcare"         -> <<"HIGH", "HIGH", "HIGH">>
      [] rule_set = "general"            -> <<"MEDIUM", "LOW">>

\* the rules whose pattern the message content matches, in rule order
RECURSIVE RuleViolations(_, _, _)
RuleViolations(severities, matched, i) ==
    IF i > Len(severities) THEN <<>>
    ELSE (IF i \in matched THEN <<severities[i]>> ELSE <<>>)
           \o RuleViolations(severities, matched, i + 1)

CountOf(violations, severity) ==
    Cardinality({i \in 1..Len(violations) : violations[i] = severity})

\* faulty variant: the score is not kept above zero
ComplianceScoreUnbounded(all_violations) ==
    100 - CountOf(all_violations, "HIGH") * 25
        - CountOf(all_violations, "MEDIUM") * 10
        - CountOf(all_violations, "LOW") * 5

\* line 194
ComplianceScore(all_violations) ==
    Max(0, 100 - CountOf(all_violations, "HIGH") * 25
               - CountOf(all_violations, "MEDIUM") * 10
               - CountOf(all_violations, "LOW") * 5)

\* line 201
RiskLevel(all_violations) ==
    IF CountOf(all_violations, "HIGH") > 0 THEN "HIGH"
    ELSE IF CountOf(all_violations, "MEDIUM") > 0 THEN "MEDIUM"
    ELSE "LOW"

\* the loop body of _apply_rule_based_checks for one message analysis
\* (lines 163-204): the violations are given by their severity
enhance_message_analysis(message_analysis, rule_set, matched) ==
    LET rule_violations == RuleViolations(RuleSeverities(rule_set), matched, 1)
        all_violations == message_analysis.violations \o rule_violations
    IN  [message_id |-> message_analysis.message_id,
         violations |-> all_violations,
         compliance_score |-> ComplianceScore(all_violations),
         rule_based_checks_applied |-> Len(rule_violations),
         risk_level |-> RiskLevel(all_violations)]

RuleSets == {"financial_services", "healthcare", "general"}

RuleCheckCalls ==
    UNION {{[method |-> "apply_rule_based_checks",
             message_analysis |-> [message_id |-> 1, violations |-> v,
                                   compliance_score |-> reported],
             rule_set |-> rs, matched |-> m] :
               v \in SeqsUpTo(Severities, MaxViolations), reported \in {0, 100},
               m \in SUBSET (1..Len(RuleSeverities(rs)))} : rs \in RuleSets}

\* what an upstream agent left in previous_results: nothing, a failed result,
\* or a result with data
UpstreamResults(agent_key) ==
    {<<>>, <<<<agent_key, ErrorResult(agent_key, "LLM call failed")>>>>}
    \cup {<<<<agent_key,
              SuccessResult(agent_key, [path |-> "parsed", ids |-> ids, error |-> FALSE],
                            LLMSuccess(DictReply))>>>> :
            ids \in {<<1>>, <<ListId>>, <<1, 2>>}}

ProcessCalls ==
    {[method |-> "process_dynamic", agent_key |-> k, reply |-> reply,
      previous_results |-> a \o b \o c, given |-> a \o b \o c] :
        k \in BuiltIn, reply \in Replies,
        a \in UpstreamResults("copywriter"), b \in UpstreamResults("compliance"),
        c \in UpstreamResults("feedback")}

\* faulty variant: the agent takes the upstream results out of its input
InputAfterConsuming(agent_key, previous_results) == <<>>

\* input_data["previous_results"] after process_dynamic: no agent writes to it
InputAfterProcessing(agent_key, previous_results) == previous_results

\* the `data` of the result, or the failure process_dynamic returns instead
ProcessedData(agent_key, reply, previous_results) ==
    LET out == process_llm_response(agent_key, reply, previous_results)
    IN  IF out.raised THEN [success |-> FALSE, data |-> [none |-> TRUE]]
        ELSE [success |-> TRUE, data |-> out.data]

MethodInit ==
    /\ EngineAtRest
    /\ SharedIdle
    /\ call \in AdaptationCalls \cup GatewayCalls \cup FallbackCalls
                  \cup RuleCheckCalls \cup ProcessCalls
    /\ ret = <<>>

ResolveAdaptations ==
    /\ call.method = "get_scenario_adaptations"
    /\ ret = <<>>
    /\ ret' = <<get_scenario_adaptations(call.table, call.base, call.scenario, call.agent_key)>>
    /\ UNCHANGED <<engineVars, sharedVars, call>>

GenerateCompletion ==
    /\ call.method = "generate_completion"
    /\ ret = <<>>
    /\ ret' = <<generate_completion(call.outcome)>>
    /\ UNCHANGED <<engineVars, sharedVars, call>>

GenerateCompletionSync ==
    /\ call.method = "generate_completion_sync"
    /\ ret = <<>>
    /\ ret' = <<generate_completion_sync(call.outcome)>>
    /\ UNCHANGED <<engineVars, sharedVars, call>>

\* the copywriter's _process_llm_response on a reply that is no JSON (line 117)
ParseFallback ==
    /\ call.method = "fallback_message_parsing"
    /\ ret = <<>>
    /\ ret' = <<fallback_parse_lines(call.lines)>>
    /\ UNCHANGED <<engineVars, sharedVars, call>>

ApplyRuleBasedChecks ==
    /\ call.method = "apply_rule_based_checks"
    /\ ret = <<>>
    /\ ret' = <<enhance_message_analysis(call.message_analysis, call.rule_set, call.matched)>>
    /\ UNCHANGED <<engineVars, sharedVars, call>>

\* one more invocation of the agent with the input as the last one left it
ProcessAgain ==
    /\ call.method = "process_dynamic"
    /\ Len(ret) < MaxRepeats
    /\ ret' = Append(ret, ProcessedData(call.agent_key, call.reply, call.previous_results))
    /\ call' = [call EXCEPT !.previous_results =
                   InputAfterProcessing(call.agent_key, call.previous_results)]
    /\ UNCHANGED <<engineVars, sharedVars>>

MethodNext ==
    \/ ResolveAdaptations
    \/ GenerateCompletion
    \/ GenerateCompletionSync
    \/ ParseFallback
    \/ ApplyRuleBasedChecks
    \/ ProcessAgain

MethodSpec == MethodInit /\ [][MethodNext]_vars

-----------------------------------------------------------------------------
(* The compliance agent on upstream messages.  A message's content is      *)
(* given by the rule phrases it holds (matching ignores case): {} is a     *)
(* text such as "Renew today", {"guaranteed"} one such as "Guaranteed      *)
(* savings".  A violation is [type, severity, description].  Numbers with  *)
(* one decimal (overall_compliance) are counted in tenths.                 *)

\* the scenario name holds the word (`"insurance" in scenario`)
ScenarioMentions(scenario, word) ==
    \/ word = "insurance" /\ scenario = "insurance_renewal"
    \/ word = "financial" /\ scenario = "financial_renewal"
    \/ word = "health" /\ scenario = "healthcare_reminder"

\* lines 147-152
RuleSetOf(scenario) ==
    IF ScenarioMentions(scenario, "insurance") \/ ScenarioMentions(scenario, "financial")
    THEN "financial_services"
    ELSE IF ScenarioMentions(scenario, "health") THEN "healthcare"
    ELSE "general"

\* self.base_compliance_rules: a pattern is the set of its alternatives
base_compliance_rules(rule_set) ==
    CASE rule_set = "financial_services" ->
           <<[pattern |-> {"guaranteed", "promise", "100%"}, severity |-> "HIGH",
              rule |-> "No absolute guarantees"],
             [pattern |-> {"click here", "act now", "urgent"}, severity |-> "MEDIUM",
              rule |-> "Avoid high-pressure language"],
             [pattern |-> {"free money", "instant cash"}, severity |-> "HIGH",
              rule |-> "No misleading financial claims"]>>
      [] rule_set = "healthcare" ->
           <<[pattern |-> {"cure", "guaranteed healing", "miracle"}, severity |-> "HIGH",
              rule |-> "No medical claims"],
             [pattern |-> {"personal health info"}, severity |-> "HIGH",
              rule |-> "HIPAA compliance required"],
             [pattern |-> {"diagnose", "treatment guarantee"}, severity |-> "HIGH",
              rule |-> "No medical advice"]>>
      [] rule_set = "general" ->
           <<[pattern |-> {"winner", "you've won", "congratulations"}, severity |-> "MEDIUM",
              rule |-> "Avoid spam-like language"],
             [pattern |-> {"limited time", "expires soon", "hurry"}, severity |-> "LOW",
              rule |-> "Moderate urgency language"]>>

\* re.search(pattern, content, re.IGNORECASE)
Search(pattern, content) == pattern \cap content # {}

\* lines 168-171: the content of the first message carrying the id, else ""
ContentOf(messages, message_id) ==
    LET hits == {i \in 1..Len(messages) : messages[i].message_id = message_id}
    IN  IF hits = {} THEN {}
        ELSE messages[CHOOSE i \in hits : \A j \in hits : i <= j].content

\* faulty variant: no rule is applied to the content
NoRuleViolations(rules, content, i) == <<>>

\* lines 174-183
RECURSIVE RuleBasedViolations(_, _, _)
RuleBasedViolations(rules, content, i) ==
    IF i > Len(rules) THEN <<>>
    ELSE (IF Search(rules[i].pattern, content)
          THEN <<[type |-> "rule_based_check", severity |-> rules[i].severity,
                  description |-> rules[i].rule]>>
          ELSE <<>>)
           \o RuleBasedViolations(rules, content, i + 1)

SeveritiesOf(violations) == [i \in 1..Len(violations) |-> violations[i].severity]

\* the loop body of _apply_rule_based_checks (lines 163-204)
EnhancedAnalysis(message_analysis, rules, messages) ==
    LET rule_violations ==
            RuleBasedViolations(rules, ContentOf(messages, message_analysis.message_id), 1)
        all_violations == message_analysis.violations \o rule_violations
    IN  [message_id |-> message_analysis.message_id,
         violations |-> all_violations,
         compliance_score |-> ComplianceScore(SeveritiesOf(all_violations)),
         rule_based_checks_applied |-> Len(rule_violations),
         risk_level |-> RiskLevel(SeveritiesOf(all_violations))]

RECURSIVE SumScores(_)
SumScores(analyses) ==
    IF analyses = <<>> THEN 0
    ELSE Head(analyses).compliance_score + SumScores(Tail(analyses))

\* round(): the nearest integer to num / den, a tie going to the even one
RoundHalfEven(num, den) ==
    LET q == num \div den
        r == num % den
    IN  IF 2 * r < den THEN q
        ELSE IF 2 * r > den THEN q + 1
        ELSE IF q % 2 = 0 THEN q ELSE q + 1

\* round(num / den, 1) in tenths
RoundTenths(num, den) == RoundHalfEven(10 * num, den)

\* faulty variant: the value the model reported is kept
OverallAsReported(analyses, reported) == 10 * reported

\* lines 207-210 and 215 (and 293, 296 with reported = 0)
OverallCompliance(analyses, reported) ==
    IF analyses # <<>> THEN RoundTenths(SumScores(analyses), Len(analyses))
    ELSE 10 * reported

\* the overall_compliance the parsed analysis falls back on (line 210)
DefaultOverallCompliance == 50

\* DynamicComplianceAgent._apply_rule_based_checks
apply_rule_based_checks(llm_analysis, messages, scenario) ==
    LET rules == base_compliance_rules(RuleSetOf(scenario))
        enhanced_analyses ==
            [i \in 1..Len(llm_analysis.message_analyses) |->
                EnhancedAnalysis(llm_analysis.message_analyses[i], rules, messages)]
    IN  [message_analyses |-> enhanced_analyses,
         overall_compliance |->
             OverallCompliance(enhanced_analyses,
                               Get(llm_analysis, "overall_compliance", DefaultOverallCompliance)),
         rule_set_applied |-> RuleSetOf(scenario)]

CountRisk(message_analyses, level) ==
    Cardinality({i \in 1..Len(message_analyses) : message_analyses[i].risk_level = level})

\* faulty variant: only the average score decides
OverallRiskByScore(high_risk_messages, medium_risk_messages, avg_compliance_score) ==
    IF avg_compliance_score < 600 THEN "HIGH"
    ELSE IF avg_compliance_score < 800 THEN "MEDIUM"
    ELSE "LOW"

\* lines 235-240, the average score in tenths
OverallRisk(high_risk_messages, medium_risk_messages, avg_compliance_score) ==
    IF high_risk_messages > 0 \/ avg_compliance_score < 600 THEN "HIGH"
    ELSE IF medium_risk_messages > 0 \/ avg_compliance_score < 800 THEN "MEDIUM"
    ELSE "LOW"

\* DynamicComplianceAgent._calculate_risk_metrics
calculate_risk_metrics(analysis) ==
    IF analysis.message_analyses = <<>> THEN [overall_risk |-> "UNKNOWN"]
    ELSE LET overall_risk ==
                 OverallRisk(CountRisk(analysis.message_analyses, "HIGH"),
                             CountRisk(analysis.message_analyses, "MEDIUM"),
                             analysis.overall_compliance)
         IN  [overall_risk |-> overall_risk,
              high_risk_messages |-> CountRisk(analysis.message_analyses, "HIGH"),
              medium_risk_messages |-> CountRisk(analysis.message_analyses, "MEDIUM"),
              low_risk_messages |-> CountRisk(analysis.message_analyses, "LOW"),
              avg_compliance_score |-> analysis.overall_compliance,
              deployment_recommendation |->
                  IF overall_risk = "LOW" THEN "APPROVED"
                  ELSE IF overall_risk = "MEDIUM" THEN "REVIEW_REQUIRED"
                  ELSE "NOT_APPROVED"]

\* lines 267-281: the two keyword checks of the fallback
FallbackViolations(content) ==
    (IF Search({"guaranteed", "promise", "100%"}, content)
     THEN <<[type |-> "absolute_claims", severity |-> "HIGH",
             description |-> "Contains absolute guarantees"]>>
     ELSE <<>>)
    \o (IF Search({"click here", "act now", "urgent"}, content)
        THEN <<[type |-> "high_pressure", severity |-> "MEDIUM",
                description |-> "High-pressure language detected"]>>
        ELSE <<>>)

\* lines 283-284
FallbackScore(violations) ==
    Max(0, 100 - CountOf(SeveritiesOf(violations), "HIGH") * 30
               - CountOf(SeveritiesOf(violations), "MEDIUM") * 15)

\* the loop body of _fallback_compliance_analysis (lines 262-291)
FallbackAnalysis(message) ==
    LET violations == FallbackViolations(message.content)
    IN  [message_id |-> message.message_id,
         compliance_score |-> FallbackScore(violations),
         violations |-> violations,
         risk_level |-> IF CountOf(SeveritiesOf(violations), "HIGH") > 0 THEN "HIGH"
                        ELSE IF violations # <<>> THEN "MEDIUM" ELSE "LOW"]

\* DynamicComplianceAgent._fallback_compliance_analysis, message by message
fallback_compliance(messages, scenario) ==
    LET fallback_analyses == [i \in 1..Len(messages) |-> FallbackAnalysis(messages[i])]
    IN  [overall_compliance |-> OverallCompliance(fallback_analyses, 0),
         message_analyses |-> fallback_analyses,
         scenario |-> scenario,
         analysis_method |-> "fallback_rule_based"]

\* DynamicComplianceAgent._process_llm_response on a reply that is no JSON
\* (kind "text"), JSON that is no object ("array"), or a JSON object
compliance_data(reply, messages, scenario) ==
    IF reply.kind = "text" THEN fallback_compliance(messages, scenario)
    ELSE IF reply.kind = "array"
    THEN [overall_compliance |-> 10 * DefaultOverallCompliance, error |-> TRUE,
          scenario |-> scenario, fallback_applied |-> TRUE]
    ELSE LET enhanced_analysis == apply_rule_based_checks(reply.object, messages, scenario)
         IN  [message_analyses |-> enhanced_analysis.message_analyses,
              overall_compliance |-> enhanced_analysis.overall_compliance,
              rule_set_applied |-> enhanced_analysis.rule_set_applied,
              risk_metrics |-> calculate_risk_metrics(enhanced_analysis),
              scenario |-> scenario,
              compliance_methodology |-> "LLM + Rule-based hybrid analysis"]

\* lines 157-159: the drafting stage's messages, else the caller's `messages`
MessagesToCheck(previous_messages, input_messages) ==
    IF previous_messages # <<>> THEN previous_messages ELSE input_messages

Contents == {{}, {"guaranteed"}, {"act now"}, {"guaranteed", "act now"}, {"hurry"}}

\* messages numbered in list order, or all carrying the id 1
MessageLists ==
    {[i \in 1..Len(c) |-> [message_id |-> IF numbered THEN i ELSE 1, content |-> c[i]]] :
        c \in SeqsUpTo(Contents, MaxMessages), numbered \in BOOLEAN}

Reported(severity) ==
    [type |-> "model", severity |-> severity, description |-> "reported by the model"]

\* the violations the model reports for a message
ReportedViolations ==
    {<<>>, <<Reported("LOW")>>, <<Reported("MEDIUM")>>, <<Reported("HIGH")>>,
     [i \in 1..5 |-> Reported("LOW")], [i \in 1..5 |-> Reported("MEDIUM")]}

\* an id no message carries
UnknownMessageId == 9

\* the message_analyses of a reply: one per message, one for the first
\* message only, or one for a message that does not exist
ReplyAnalyses(messages) ==
    {[i \in 1..Len(messages) |->
         [message_id |-> messages[i].message_id, violations |-> v, compliance_score |-> 100]] :
        v \in ReportedViolations}
    \cup {<<[message_id |-> id, violations |-> v, compliance_score |-> 100]>> :
            id \in {1, UnknownMessageId}, v \in ReportedViolations}

ComplianceReplies(messages) ==
    {[kind |-> "text"], [kind |-> "array"],
     [kind |-> "object", object |-> [message_analyses |-> <<>>]],
     [kind |-> "object", object |-> [message_analyses |-> <<>>, overall_compliance |-> 90]]}
    \cup {[kind |-> "object", object |-> [message_analyses |-> a, overall_compliance |-> 90]] :
            a \in ReplyAnalyses(messages)}

ComplianceScenarios ==
    {"insurance_renewal", "financial_renewal", "healthcare_reminder", "ecommerce_promotion"}

\* the caller's own `messages` when the drafting stage supplied some too
OwnMessages == <<[message_id |-> 1, content |-> {"guaranteed"}]>>

\* the drafting stage's messages and the caller's own, for a list m
MessageSources(m) == {<<m, <<>>>>, <<<<>>, m>>, <<m, OwnMessages>>}

ComplianceCall(scenario, reply, previous_messages, input_messages) ==
    [method |-> "compliance_process_llm_response", scenario |-> scenario, reply |-> reply,
     previous_messages |-> previous_messages, input_messages |-> input_messages]

AnalysisInit ==
    /\ EngineAtRest
    /\ SharedIdle
    /\ ret = <<>>
    /\ \E m \in MessageLists : \E pm \in MessageSources(m) :
         \E r \in ComplianceReplies(m) : \E sc \in ComplianceScenarios :
            call = ComplianceCall(sc, r, pm[1], pm[2])

ProcessComplianceReply ==
    /\ call.method = "compliance_process_llm_response"
    /\ ret = <<>>
    /\ ret' = <<compliance_data(call.reply,
                                MessagesToCheck(call.previous_messages, call.input_messages),
                                call.scenario)>>
    /\ UNCHANGED <<engineVars, sharedVars, call>>

AnalysisNext ==
    \/ ProcessComplianceReply

AnalysisSpec == AnalysisInit /\ [][AnalysisNext]_vars

-----------------------------------------------------------------------------
(* The decision agent on the results of the compliance and feedback stages. *)
(* An analysis, a feedback entry or a reply object is a record of the keys  *)
(* it holds, {} the record of no key.  composite_score is counted in        *)
(* tenths, confidence and decision_confidence in hundredths, the weights    *)
(* in hundredths.  The scores drawn are ones at which the binary floating   *)
(* point arithmetic of the code yields the decimal value.                   *)

EmptyDict == [k \in {} |-> 0]

\* d[k] = v
SetItem(d, k, v) == (k :> v) @@ d

\* self.decision_weights.get(scenario, self.decision_weights['default'])
decision_weights(scenario) ==
    IF scenario = "insurance_renewal"
    THEN [compliance_score |-> 40, customer_sentiment |-> 30,
          action_likelihood |-> 20, clarity |-> 10]
    ELSE IF scenario = "healthcare_reminder"
    THEN [compliance_score |-> 50, customer_sentiment |-> 20,
          action_likelihood |-> 20, clarity |-> 10]
    ELSE IF scenario = "loan_reminder"
    THEN [compliance_score |-> 45, customer_sentiment |-> 25,
          action_likelihood |-> 20, clarity |-> 10]
    ELSE IF scenario = "ecommerce_promotion"
    THEN [compliance_score |-> 30, customer_sentiment |-> 25,
          action_likelihood |-> 35, clarity |-> 10]
    ELSE [compliance_score |-> 35, customer_sentiment |-> 30,
          action_likelihood |-> 25, clarity |-> 10]

\* feedback_lookup.get(message_id, {}): of the entries that carry the id the
\* last one is kept (lines 249-253 and 263)
RECURSIVE FeedbackLookup(_, _)
FeedbackLookup(feedback_analyses, message_id) ==
    IF feedback_analyses = <<>> THEN EmptyDict
    ELSE LET f == feedback_analyses[Len(feedback_analyses)]
         IN  IF "message_id" \in DOMAIN f /\ f.message_id = message_id THEN f
             ELSE FeedbackLookup(SubSeq(feedback_analyses, 1, Len(feedback_analyses) - 1),
                                 message_id)

\* lines 266-280: round(composite_score, 1)
CompositeScore(compliance_analysis, feedback, weights) ==
    RoundTenths(Get(compliance_analysis, "compliance_score", 0) * weights.compliance_score
                + 10 * (Get(feedback, "sentiment_score", 5) * weights.customer_sentiment
                        + Get(feedback, "action_likelihood", 5) * weights.action_likelihood
                        + Get(feedback, "clarity_score", 5) * weights.clarity),
                100)

\* lines 255-287; component_scores, which nothing reads, are left out
RECURSIVE Rankings(_, _, _, _)
Rankings(message_analyses, feedback_analyses, weights, i) ==
    IF i > Len(message_analyses) THEN <<>>
    ELSE LET compliance_analysis == message_analyses[i]
             message_id == Get(compliance_analysis, "message_id", 0)
             feedback == FeedbackLookup(feedback_analyses, message_id)
         IN  (IF DOMAIN compliance_analysis = {} THEN <<>>
              ELSE <<[message_id |-> message_id,
                      composite_score |->
                          CompositeScore(compliance_analysis, feedback, weights)]>>)
               \o Rankings(message_analyses, feedback_analyses, weights, i + 1)

\* faulty variant: an entry goes before the entries of equal score
InsertBeforeEqual(sorted, entry) ==
    LET k == Cardinality({j \in 1..Len(sorted) :
                            sorted[j].composite_score > entry.composite_score})
    IN  SubSeq(sorted, 1, k) \o <<entry>> \o SubSeq(sorted, k + 1, Len(sorted))

\* where list.sort(key=composite_score, reverse=True) puts an entry among the
\* ones before it: after every entry whose score is not lower
InsertByScore(sorted, entry) ==
    LET k == Cardinality({j \in 1..Len(sorted) :
                            sorted[j].composite_score >= entry.composite_score})
    IN  SubSeq(sorted, 1, k) \o <<entry>> \o SubSeq(sorted, k + 1, Len(sorted))

\* line 290
RECURSIVE SortByComposite(_)
SortByComposite(rankings) ==
    IF rankings = <<>> THEN <<>>
    ELSE InsertByScore(SortByComposite(SubSeq(rankings, 1, Len(rankings) - 1)),
                       rankings[Len(rankings)])

\* lines 293-294
WithRanks(rankings) == [i \in 1..Len(rankings) |-> SetItem(rankings[i], "rank", i)]

\* DynamicDecisionAgent._calculate_message_ranking
calculate_message_ranking(compliance_dict, feedback_dict, scenario) ==
    LET weights == decision_weights(scenario)
        message_analyses == Get(compliance_dict, "message_analyses", <<>>)
        feedback_analyses == Get(feedback_dict, "message_feedback", <<>>)
    IN  IF message_analyses = <<>> THEN <<>>
        ELSE WithRanks(SortByComposite(Rankings(message_analyses, feedback_analyses,
                                                weights, 1)))

\* the first analysis that carries the id, {} when there is none
\* (lines 310-314 and 381-385)
FirstAnalysisOf(message_analyses, message_id) ==
    LET hits == {i \in 1..Len(message_analyses) :
                    /\ "message_id" \in DOMAIN message_analyses[i]
                    /\ message_analyses[i].message_id = message_id}
    IN  IF hits = {} THEN EmptyDict
        ELSE message_analyses[CHOOSE i \in hits : \A j \in hits : i <= j]

\* DynamicDecisionAgent._predict_performance_outcomes: of the outcomes the
\* one that is read again (compliance_risk); the predicted rates are left out
predict_performance_outcomes(message_id, compliance_dict) ==
    LET message_compliance ==
            FirstAnalysisOf(Get(compliance_dict, "message_analyses", <<>>), message_id)
    IN  [compliance_risk |-> Get(message_compliance, "risk_level", "MEDIUM")]

\* DynamicDecisionAgent._assess_overall_risk
assess_overall_risk(message_id, compliance_dict) ==
    LET message_compliance ==
            FirstAnalysisOf(Get(compliance_dict, "message_analyses", <<>>), message_id)
        compliance_risk == Get(message_compliance, "risk_level", "MEDIUM")
        compliance_score == Get(message_compliance, "compliance_score", 70)
        violations == Len(Get(message_compliance, "violations", <<>>))
    IN  IF compliance_risk = "HIGH" \/ compliance_score < 60 \/ violations > 2 THEN "HIGH"
        ELSE IF compliance_risk = "MEDIUM" \/ compliance_score < 80 \/ violations > 0
        THEN "MEDIUM"
        ELSE "LOW"

\* lines 197-205: the data of an upstream stage, with the safe default
StageData(previous_results, stage, default) ==
    LET data == Get(Get(previous_results, stage, EmptyDict), "data", EmptyDict)
    IN  IF DOMAIN data = {} THEN default ELSE data

ComplianceDataOf(previous_results) ==
    StageData(previous_results, "compliance",
              [message_analyses |-> <<>>, overall_compliance |-> 50])

FeedbackDataOf(previous_results) ==
    StageData(previous_results, "feedback",
              [message_feedback |-> <<>>, feedback_summary |-> EmptyDict])

\* line 212: analyses exist and none carries the recommended id; line 214 then
\* calls .get on the list, which raises AttributeError
RecommendedLookupRaises(decision_data, previous_results) ==
    LET recommended_id == Get(decision_data, "recommended_message_id", 1)
        message_analyses ==
            Get(ComplianceDataOf(previous_results), "message_analyses", <<>>)
    IN  /\ message_analyses # <<>>
        /\ ~ \E i \in 1..Len(message_analyses) :
                /\ "message_id" \in DOMAIN message_analyses[i]
                /\ message_analyses[i].message_id = recommended_id

\* DynamicDecisionAgent._enhance_decision_analysis, when line 214 is not reached
enhance_decision_analysis(decision_data, previous_results, scenario) ==
    LET compliance_dict == ComplianceDataOf(previous_results)
        feedback_dict == FeedbackDataOf(previous_results)
        recommended_id == Get(decision_data, "recommended_message_id", 1)
        ranked ==
            IF "ranking" \in DOMAIN decision_data THEN decision_data
            ELSE SetItem(decision_data, "ranking",
                         calculate_message_ranking(compliance_dict, feedback_dict, scenario))
        predicted ==
            IF "predicted_outcomes" \in DOMAIN ranked THEN ranked
            ELSE SetItem(ranked, "predicted_outcomes",
                         predict_performance_outcomes(recommended_id, compliance_dict))
    IN  IF "risk_assessment" \in DOMAIN predicted THEN predicted
        ELSE SetItem(predicted, "risk_assessment",
                     assess_overall_risk(recommended_id, compliance_dict))

\* DynamicDecisionAgent._generate_deployment_recommendations: the status
generate_deployment_recommendations(decision_data) ==
    LET risk_level == Get(decision_data, "risk_assessment", "MEDIUM")
        confidence == Get(decision_data, "confidence", 50)
        compliance_risk ==
            Get(Get(decision_data, "predicted_outcomes", EmptyDict),
                "compliance_risk", "MEDIUM")
    IN  [deployment_status |->
            IF risk_level = "LOW" /\ confidence >= 80 /\ compliance_risk = "LOW"
            THEN "APPROVED_FOR_IMMEDIATE_DEPLOYMENT"
            ELSE IF risk_level = "MEDIUM" \/ confidence >= 60
            THEN "APPROVED_WITH_MONITORING"
            ELSE "REQUIRES_REVIEW"]

\* lines 506-510: 'stage' in previous_results and its success flag
RanAndSucceeded(previous_results, stage) ==
    stage \in DOMAIN previous_results /\ Get(previous_results[stage], "success", FALSE)

UpstreamStages == {"copywriter", "compliance", "feedback"}

\* lines 515-516: with two entries or more, .get is called on the ranking
\* list, which raises AttributeError
ConfidenceRaises(decision_data) == Len(Get(decision_data, "ranking", <<>>)) >= 2

\* faulty variant: a lone entry counts as fully separated
SeparationOfLoneEntry(ranking) == IF ranking = <<>> THEN 150 ELSE 300

\* line 521, in three-hundredths: the factor 0.5 of a ranking of fewer than
\* two entries
SeparationFactor(ranking) == 150

\* line 525, in three-hundredths
RiskFactor(risk_level) ==
    IF risk_level = "LOW" THEN 300 ELSE IF risk_level = "MEDIUM" THEN 210 ELSE 90

RECURSIVE SumOf(_)
SumOf(factors) == IF factors = <<>> THEN 0 ELSE Head(factors) + SumOf(Tail(factors))

\* DynamicDecisionAgent._calculate_decision_confidence, when line 516 is not
\* reached; the factors are counted in three-hundredths
calculate_decision_confidence(decision_data, previous_results) ==
    LET data_quality ==
            100 * Cardinality({s \in UpstreamStages : RanAndSucceeded(previous_results, s)})
        factors == <<data_quality,
                     SeparationFactor(Get(decision_data, "ranking", <<>>)),
                     RiskFactor(Get(decision_data, "risk_assessment", "MEDIUM")),
                     3 * Get(decision_data, "confidence", 50)>>
    IN  RoundHalfEven(SumOf(factors), 3 * Len(factors))

\* lines 563-576: the scores of the fallback, in tenths
RECURSIVE MessageScores(_, _, _)
MessageScores(compliance_analyses, feedback_analyses, i) ==
    IF i > Len(compliance_analyses) THEN <<>>
    ELSE LET compliance_analysis == compliance_analyses[i]
             message_id == Get(compliance_analysis, "message_id", 1)
             feedback == FeedbackLookup(feedback_analyses, message_id)
         IN  (IF DOMAIN compliance_analysis = {} THEN <<>>
              ELSE <<[message_id |-> message_id,
                      composite_score |->
                          6 * Get(compliance_analysis, "compliance_score", 0)
                          + 4 * (Get(feedback, "sentiment_score", 5) * 10)]>>)
               \o MessageScores(compliance_analyses, feedback_analyses, i + 1)

\* max(message_scores, key=composite_score): the first of the highest
BestMessage(message_scores) ==
    message_scores[CHOOSE i \in 1..Len(message_scores) :
        /\ \A j \in 1..Len(message_scores) :
              message_scores[j].composite_score <= message_scores[i].composite_score
        /\ \A j \in 1..(i - 1) :
              message_scores[j].composite_score < message_scores[i].composite_score]

\* DynamicDecisionAgent._fallback_decision_analysis
fallback_decision(previous_results, scenario) ==
    LET compliance_dict == Get(Get(previous_results, "compliance", EmptyDict), "data", EmptyDict)
        feedback_dict == Get(Get(previous_results, "feedback", EmptyDict), "data", EmptyDict)
        message_scores ==
            MessageScores(Get(compliance_dict, "message_analyses", <<>>),
                          Get(feedback_dict, "message_feedback", <<>>), 1)
    IN  [recommended_message_id |->
            IF message_scores # <<>> THEN BestMessage(message_scores).message_id ELSE 1,
         confidence |-> 60,
         composite_score |->
            IF message_scores # <<>> THEN BestMessage(message_scores).composite_score
            ELSE 700,
         predicted_outcomes |-> [compliance_risk |-> "MEDIUM"],
         risk_assessment |-> "MEDIUM",
         scenario |-> scenario,
         analysis_method |-> "fallback_rule_based"]

\* lines 185-191: what `except Exception` returns
DecisionStub(scenario) ==
    [recommended_message_id |-> 1, confidence |-> 30, error |-> TRUE,
     scenario |-> scenario, fallback_applied |-> TRUE]

\* DynamicDecisionAgent._process_llm_response on a reply that is no JSON
\* (kind "text"), JSON that is no object ("array"), or a JSON object
decision_result(reply, previous_results, scenario) ==
    IF reply.kind = "text" THEN fallback_decision(previous_results, scenario)
    ELSE IF reply.kind = "array" THEN DecisionStub(scenario)
    ELSE IF RecommendedLookupRaises(reply.object, previous_results)
    THEN DecisionStub(scenario)
    ELSE LET enhanced_decision ==
                 enhance_decision_analysis(reply.object, previous_results, scenario)
         IN  IF ConfidenceRaises(enhanced_decision) THEN DecisionStub(scenario)
             ELSE [deployment_recommendations |->
                       generate_deployment_recommendations(enhanced_decision),
                   decision_confidence |->
                       calculate_decision_confidence(enhanced_decision, previous_results),
                   scenario |-> scenario,
                   decision_methodology |-> "Multi-criteria LLM-based optimization",
                   weights_applied |-> decision_weights(scenario)]
                  @@ enhanced_decision

\* what the compliance stage reports for a message: no violation, one of
\* MEDIUM severity, or two
AnalysedViolations ==
    {<<>>, <<Reported("MEDIUM")>>, <<Reported("MEDIUM"), Reported("MEDIUM")>>}

AnalysedIds == {1, 2}

AnalysisOf(message_id, violations) ==
    [message_id |-> message_id, violations |-> violations,
     compliance_score |-> ComplianceScore(SeveritiesOf(violations)),
     risk_level |-> RiskLevel(SeveritiesOf(violations))]

\* the analyses handed on: one per message, some of them empty
AnalysisLists ==
    SeqsUpTo({AnalysisOf(id, v) : id \in AnalysedIds, v \in AnalysedViolations}
                \cup {EmptyDict},
             MaxMessages)

FeedbackLists ==
    {<<>>,
     <<[message_id |-> 1, sentiment_score |-> 8]>>,
     <<[message_id |-> 1, sentiment_score |-> 2, action_likelihood |-> 9,
        clarity_score |-> 7],
       [message_id |-> 2, sentiment_score |-> 8]>>,
     <<[message_id |-> 2, sentiment_score |-> 8],
       [message_id |-> 2, sentiment_score |-> 2]>>}

\* a scenario with weights of its own, another, and one with the default ones
DecisionScenarios == {"insurance_renewal", "ecommerce_promotion", "festival_offer"}

\* a ranking the reply brings along
SuppliedRanking(n) ==
    [i \in 1..n |-> [message_id |-> i, composite_score |-> 900 - 100 * i, rank |-> i]]

\* the keys of a reply object: each is there or not
DecisionObjects ==
    {[k \in keys |->
         IF k = "recommended_message_id" THEN id
         ELSE IF k = "confidence" THEN 85
         ELSE SuppliedRanking(n)] :
        keys \in SUBSET {"recommended_message_id", "confidence", "ranking"},
        id \in {2, UnknownMessageId}, n \in 0..2}

DecisionReplies ==
    {[kind |-> "text"], [kind |-> "array"]}
    \cup {[kind |-> "object", object |-> o] : o \in DecisionObjects}

\* what the compliance stage and the feedback stage leave behind: a failure,
\* or a success with data
ComplianceResults ==
    {[success |-> FALSE]}
    \cup {[success |-> TRUE, data |-> [message_analyses |-> l]] : l \in AnalysisLists}

FeedbackResults ==
    {[success |-> FALSE]}
    \cup {[success |-> TRUE, data |-> [message_feedback |-> l]] : l \in FeedbackLists}

\* the upstream results; the drafting stage ran or not
PreviousResults(has_copywriter, compliance, feedback) ==
    [stage \in (IF has_copywriter THEN {"copywriter"} ELSE {}) \cup {"compliance", "feedback"} |->
        IF stage = "copywriter" THEN [success |-> TRUE]
        ELSE IF stage = "compliance" THEN compliance
        ELSE feedback]

DecisionCall(scenario, reply, previous_results) ==
    [method |-> "decision_process_llm_response", scenario |-> scenario, reply |-> reply,
     previous_results |-> previous_results]

RankingCall(scenario, compliance_dict, feedback_dict) ==
    [method |-> "calculate_message_ranking", scenario |-> scenario,
     compliance_data |-> compliance_dict, feedback_data |-> feedback_dict]

DecisionInit ==
    /\ EngineAtRest
    /\ SharedIdle
    /\ ret = <<>>
    /\ \E sc \in DecisionScenarios : \E c \in ComplianceResults : \E f \in FeedbackResults :
         \/ \E r \in DecisionReplies : \E has_copywriter \in BOOLEAN :
               call = DecisionCall(sc, r, PreviousResults(has_copywriter, c, f))
         \/ /\ c.success
            /\ f.success
            /\ call = RankingCall(sc, c.data, f.data)

ProcessDecisionReply ==
    /\ call.method = "decision_process_llm_response"
    /\ ret = <<>>
    /\ ret' = <<decision_result(call.reply, call.previous_results, call.scenario)>>
    /\ UNCHANGED <<engineVars, sharedVars, call>>

CalculateMessageRanking ==
    /\ call.method = "calculate_message_ranking"
    /\ ret = <<>>
    /\ ret' = <<calculate_message_ranking(call.compliance_data, call.feedback_data,
                                          call.scenario)>>
    /\ UNCHANGED <<engineVars, sharedVars, call>>

DecisionNext ==
    \/ ProcessDecisionReply
    \/ CalculateMessageRanking

DecisionSpec == DecisionInit /\ [][DecisionNext]_vars

-----------------------------------------------------------------------------
(* BaseDynamicAgent._generate_dynamic_system_prompt.  A template is given   *)
(* by the slots it references, in the order of the text; the substitution   *)
(* set by its keys.  A rendered slot is the value of its key ("value"),     *)
(* the literal N/A ("N/A") or the slot as the template spells it, braces    *)
(* included ("slot").                                                       *)

\* AGENT_CONFIGS[agent_type].system_prompt_template
system_prompt_template(agent_type) ==
    IF agent_type = "copywriter"
    THEN <<"scenario_context", "audience", "channel", "tone", "special_requirements",
           "num_messages", "adaptation_instructions">>
    ELSE IF agent_type = "compliance"
    THEN <<"scenario_context", "channel", "jurisdiction", "industry", "regulation_focus",
           "messages", "dynamic_rules">>
    ELSE IF agent_type = "feedback"
    THEN <<"scenario_context", "demographics", "behavior_profile", "market_context",
           "historical_data", "messages", "simulation_parameters">>
    ELSE <<"scenario_context", "business_objectives", "constraints", "success_metrics",
           "risk_tolerance", "compliance_data", "feedback_data", "additional_factors",
           "decision_criteria">>

\* the keys of SCENARIOS
KnownScenarios == {"financial_renewal", "healthcare_reminder", "ecommerce_promotion"}

\* lines 121-132: the keys of template_vars
template_vars(input_keys, adaptation_keys, scenario) ==
    {"scenario_context", "adaptations"} \cup input_keys \cup adaptation_keys
        \cup (IF scenario \in KnownScenarios
              THEN {"scenario_name", "scenario_description"} ELSE {})

\* the slots str.format finds no key for
MissingSlots(template, keys) == {i \in 1..Len(template) : template[i] \notin keys}

\* line 135: template.format(**template_vars), every slot has its key
Format(template) == [i \in 1..Len(template) |-> [slot |-> template[i], text |-> "value"]]

\* line 138: template.replace("{key}", "N/A") on the template as it is
\* written; key is the one the KeyError names
ReplaceInTemplate(template, key) ==
    [i \in 1..Len(template) |->
        [slot |-> template[i], text |-> IF template[i] = key THEN "N/A" ELSE "slot"]]

\* BaseDynamicAgent._generate_dynamic_system_prompt
generate_dynamic_system_prompt(agent_type, input_keys, adaptation_keys, scenario) ==
    LET template == system_prompt_template(agent_type)
        keys == template_vars(input_keys, adaptation_keys, scenario)
        missing == MissingSlots(template, keys)
    IN  IF missing = {} THEN Format(template)
        ELSE ReplaceInTemplate(template,
                               template[CHOOSE i \in missing : \A j \in missing : i <= j])

AgentTypes == {"copywriter", "compliance", "feedback", "decision"}

\* the slots a caller can supply: all of the template's but scenario_context
SuppliableSlots(agent_type) == Range(system_prompt_template(agent_type)) \ {"scenario_context"}

PromptCall(agent_type, input_keys, adaptation_keys, scenario) ==
    [method |-> "generate_dynamic_system_prompt", agent_type |-> agent_type,
     input_keys |-> input_keys, adaptation_keys |-> adaptation_keys, scenario |-> scenario]

PromptInit ==
    /\ EngineAtRest
    /\ SharedIdle
    /\ ret = <<>>
    /\ \E agent_type \in AgentTypes : \E scenario \in {"financial_renewal", "festival_offer"} :
         \E supplied \in SUBSET SuppliableSlots(agent_type) :
           \E adaptation_keys \in {{}, {"adaptation_instructions"}} :
              call = PromptCall(agent_type, supplied \ adaptation_keys,
                                adaptation_keys, scenario)

GenerateSystemPrompt ==
    /\ call.method = "generate_dynamic_system_prompt"
    /\ ret = <<>>
    /\ ret' = <<generate_dynamic_system_prompt(call.agent_type, call.input_keys,
                                               call.adaptation_keys, call.scenario)>>
    /\ UNCHANGED <<engineVars, sharedVars, call>>

PromptNext ==
    \/ GenerateSystemPrompt

PromptSpec == PromptInit /\ [][PromptNext]_vars

-----------------------------------------------------------------------------
(* Properties *)

Done == pc = "done"

FrameActive == frame.step # "idle"

LastEvent == events[Len(events)]

\* the result a returned call handed to the engine is a critical failure
ReturnedCritical(c) ==
    /\ ~c.raised
    /\ c.result.success = FALSE
    /\ Get(c.result, "critical", FALSE) = TRUE

\* C1: for every supplied sequence (the empty one included) with no critical
\* failure, the returned mapping has exactly the keys of the supplied sequence
\* plus workflow_summary, and total_agents is the length of that sequence.
C1_KeysOfSuppliedSequence ==
    (Done /\ agent_sequence.given /\ ~aborted) =>
        /\ KeySet(results) = Range(agent_sequence.keys) \cup {"workflow_summary"}
        /\ DictGet(results, "workflow_summary").total_agents = Len(agent_sequence.keys)

\* C2: a key that is no registered agent gets an entry with success=false, no
\* agent is invoked for it, every later key is still processed in order, and
\* no run is cut short by an unknown key.
C2_UnknownKeyContinues ==
    /\ \A n \in 1..Len(events) :
         /\ events[n].pos = n
         /\ events[n].key = sequence[n]
         /\ events[n].kind = "unknown" =>
              /\ events[n].key \notin agents
              /\ HasKey(results, events[n].key)
              /\ DictGet(results, events[n].key) = UnknownEntry
              /\ \A m \in 1..Len(calls) : calls[m].pos # n
              /\ frame.pos # n
              /\ n = Len(events) =>
                   /\ idx = n + 1
                   /\ pc \in {"loop", "done"}
                   /\ ~aborted
    /\ aborted => (events # <<>> /\ LastEvent.kind = "invoked")
    /\ (Done /\ ~aborted) => Len(events) = Len(sequence)

\* C2 witness: a finished run that met an unknown key and invoked an agent at
\* a later position.
C2_Witness ==
    /\ Done
    /\ \E n \in 1..Len(events) : \E m \in 1..Len(calls) :
         /\ events[n].kind = "unknown"
         /\ calls[m].pos > n

\* C3: the rest of the sequence is skipped if and only if the result just
\* returned has success=false and critical=true; a failure that is not
\* critical, and an exception the engine caught, let the next key be processed.
C3_AbortIffCriticalFailure ==
    /\ \A n \in 1..Len(calls) :
         IF ReturnedCritical(calls[n])
         THEN /\ aborted
              /\ n = Len(calls)
              /\ Len(events) = calls[n].pos
              /\ pc \in {"summary", "done"}
         ELSE \/ calls[n].pos = Len(sequence) /\ ~aborted
              \/ Len(events) > calls[n].pos
              \/ pc = "loop" /\ idx = calls[n].pos + 1
    /\ aborted => (calls # <<>> /\ ReturnedCritical(calls[Len(calls)]))
    /\ (Done /\ ~aborted) => Len(events) = Len(sequence)

\* C3 witness: one finished run in which a failure that is not critical or a
\* caught exception was followed by a further agent, and a critical failure
\* ended the run early.
C3_Witness ==
    /\ Done
    /\ aborted
    /\ Len(events) < Len(sequence)
    /\ \E n \in 1..Len(calls) :
         /\ n < Len(calls)
         /\ \/ calls[n].raised
            \/ ~calls[n].raised /\ calls[n].result.success = FALSE

\* the order of process_dynamic's steps around its one await
StepOrder == <<"render", "gateway", "process", "log", "return">>

RECURSIVE IsSubsequence(_, _)
IsSubsequence(s, t) ==
    IF s = <<>> THEN TRUE
    ELSE IF t = <<>> THEN FALSE
    ELSE IF Head(s) = Head(t) THEN IsSubsequence(Tail(s), Tail(t))
    ELSE IsSubsequence(s, Tail(t))

InvokedCount == Cardinality({n \in 1..Len(events) : events[n].kind = "invoked"})

BuiltInCalls == {n \in 1..Len(calls) : calls[n].key \in BuiltIn}

\* C4: agent invocations never overlap: the agent at the next position is
\* started only after the previous one returned and its result was stored in
\* results and in workflow_context.agent_results; an agent's steps (render,
\* gateway, process, log, return) happen in that order.
C4_OneAgentAtATime ==
    /\ InvokedCount = Len(calls) + (IF FrameActive THEN 1 ELSE 0)
    /\ FrameActive <=> pc = "await"
    /\ \A n \in 1..Len(calls) :
         /\ n > 1 => calls[n - 1].pos < calls[n].pos
         /\ FrameActive => calls[n].pos < frame.pos
         /\ (n > 1 /\ ~calls[n - 1].raised) =>
              /\ HasKey(calls[n].previous_results, calls[n - 1].key)
              /\ DictGet(calls[n].previous_results, calls[n - 1].key) = calls[n - 1].result
         /\ (~calls[n].raised /\ \A m \in (n + 1)..Len(calls) : calls[m].key # calls[n].key) =>
              /\ HasKey(results, calls[n].key)
              /\ DictGet(results, calls[n].key) = calls[n].result
              /\ HasKey(workflow_context.agent_results, calls[n].key)
              /\ DictGet(workflow_context.agent_results, calls[n].key) = calls[n].result
         /\ (calls[n].key \in BuiltIn /\ ~calls[n].raised) =>
              /\ IsSubsequence(calls[n].trace, StepOrder)
              /\ Head(calls[n].trace) = "render"
              /\ SubSeq(calls[n].trace, Len(calls[n].trace) - 1, Len(calls[n].trace))
                   = <<"log", "return">>
              /\ calls[n].result.success => calls[n].trace = StepOrder
    /\ (FrameActive /\ calls # <<>> /\ ~calls[Len(calls)].raised) =>
         /\ HasKey(frame.previous_results, calls[Len(calls)].key)
         /\ DictGet(frame.previous_results, calls[Len(calls)].key) = calls[Len(calls)].result
         /\ DictGet(results, calls[Len(calls)].key) = calls[Len(calls)].result
    /\ (FrameActive /\ frame.key \in BuiltIn) => IsSubsequence(frame.trace, StepOrder)

\* C4 witness: a second built-in agent is waiting on the gateway after the
\* first one returned successfully through all five steps.
C4_Witness ==
    /\ frame.step = "awaiting"
    /\ Len(calls) = 1
    /\ calls[1].key \in BuiltIn
    /\ calls[1].trace = StepOrder
    /\ calls[1].result.success

\* index of the latest invocation of key k that returned before the n-th
\* invocation (0 if there is none)
LatestReturned(n, k) ==
    LET S == {m \in 1..(n - 1) : ~calls[m].raised /\ calls[m].key = k}
    IN  IF S = {} THEN 0 ELSE CHOOSE m \in S : \A j \in S : j <= m

ReturnedKeysBefore(n) == {calls[m].key : m \in {j \in 1..(n - 1) : ~calls[j].raised}}

\* the view handed to the n-th invocation holds, per key, the latest result
LatestResultsView(prev, n) ==
    /\ KeySet(prev) = ReturnedKeysBefore(n)
    /\ \A k \in KeySet(prev) : DictGet(prev, k) = calls[LatestReturned(n, k)].result

\* the view handed to the n-th invocation holds the result of every earlier
\* invocation that returned
EveryEarlierResultView(prev, n) ==
    /\ KeySet(prev) \subseteq ReturnedKeysBefore(n)
    /\ \A m \in 1..(n - 1) : ~calls[m].raised =>
         /\ HasKey(prev, calls[m].key)
         /\ DictGet(prev, calls[m].key) = calls[m].result

InvocationFailed(c) ==
    \/ c.gateway_called /\ "process" \notin Range(c.trace)
    \/ c.exc # "none"

\* C6: when the gateway reports success=false or an exception is raised while
\* rendering, calling the gateway or post-processing, process_dynamic does not
\* raise and returns success=false, an error string, tokens_used = 0, no data.
C6_FailureBecomesResult ==
    \A n \in BuiltInCalls :
        InvocationFailed(calls[n]) =>
            /\ ~calls[n].raised
            /\ calls[n].result.success = FALSE
            /\ "error" \in DOMAIN calls[n].result
            /\ calls[n].result.tokens_used = 0
            /\ "data" \notin DOMAIN calls[n].result

\* C6 witness: the default run in which one agent met a gateway failure and
\* the decision agent's post-processing raised, each returned as a result.
C6_Witness ==
    \E a, b \in BuiltInCalls :
        /\ calls[a].exc = "LLM call failed"
        /\ calls[b].exc = "unhashable type"
        /\ ~calls[a].raised /\ ~calls[b].raised

\* C7: every process_dynamic call that returns appends exactly one audit
\* entry, whose success flag is that of the returned result; entries for
\* unknown keys append nothing.
C7_OneAuditEntryPerInvocation ==
    /\ \A n \in BuiltInCalls :
         ~calls[n].raised =>
            /\ calls[n].logs_after = calls[n].logs_before + 1
            /\ logs[calls[n].logs_after].success = calls[n].result.success
            /\ logs[calls[n].logs_after].output_data = calls[n].result
    /\ Len(logs) = Cardinality(BuiltInCalls)
                     + (IF frame.step = "logged" /\ frame.key \in BuiltIn THEN 1 ELSE 0)

\* C7 witness: a finished run with an unknown key, a failed invocation and a
\* successful one.
C7_Witness ==
    /\ Done
    /\ \E n \in 1..Len(events) : events[n].kind = "unknown"
    /\ \E a, b \in BuiltInCalls :
         /\ calls[a].result.success = FALSE
         /\ calls[b].result.success = TRUE

\* C8: for each of the four agents, whenever the gateway call succeeds the
\* invocation returns success=true with a data payload, whatever the reply and
\* whatever the upstream stages left.
C8_GatewaySuccessGivesData ==
    \A n \in BuiltInCalls :
        (calls[n].gateway_called /\ calls[n].llm_response.success) =>
            /\ ~calls[n].raised
            /\ calls[n].result.success = TRUE
            /\ "data" \in DOMAIN calls[n].result

\* the reply is valid JSON of a top-level shape the agent does not expect
WrongShape(c) ==
    /\ c.llm_response.content.json
    /\ c.llm_response.content.top # (IF c.key = "copywriter" THEN "list" ELSE "dict")

GatewaySucceeded(c) == c.gateway_called /\ c.llm_response.success

OverBuiltInAgents == "custom" \notin Range(EffectiveSequence(agent_sequence))

\* C10: if every gateway call returns, a run over the four built-in agents
\* eventually returns with an entry for every requested key and
\* workflow_summary; no built-in agent returns critical=true and the early
\* abort is never taken.
C10_RunCompletes ==
    OverBuiltInAgents =>
        /\ <>(/\ Done
              /\ Range(agent_sequence.keys) \cup {"workflow_summary"} \subseteq KeySet(results)
              /\ Range(sequence) \subseteq KeySet(results))
        /\ [](/\ ~aborted
              /\ \A n \in BuiltInCalls :
                   ~calls[n].raised => "critical" \notin DOMAIN calls[n].result)

\* C10 witness: a run over four keys, none of another class, returned after a
\* failed invocation.
C10_Witness ==
    /\ Done
    /\ OverBuiltInAgents
    /\ Len(sequence) = 4
    /\ \E n \in BuiltInCalls : calls[n].result.success = FALSE

-----------------------------------------------------------------------------
(* Properties of the shared audit logger and of concurrent runs *)

\* the entries the invocations of run r appended, in store order
EntriesOfRun(r) ==
    LET OfRun(e) == e.output_data.run = r
    IN  SelectSeq(shared_logs, OfRun)

\* invocations of run r that have returned
ReturnedInvocations(r) == IF runs[r].pc = "idle" THEN 0 ELSE runs[r].idx - 1

AllRunsDone == \A r \in Runs : runs[r].pc = "done"

\* C11: an appended audit entry is immutable: what it records of its input
\* (previous_results, workflow_context) is the same as at the moment it was
\* appended, whatever later steps of the run add to the workflow context.
C11_EntriesImmutable ==
    \A i \in 1..Len(shared_logs) :
        EntryPreviousResults(shared_logs[i]) = shared_logs[i].at_append.previous_results

\* C12: appends of concurrent runs to the shared store are serialized: the
\* store holds exactly one complete entry per returned agent invocation of
\* every run, none lost, duplicated or mixed with another.
C12_OneEntryPerInvocation ==
    /\ \A i \in 1..Len(shared_logs) : shared_logs[i].output_data.run \in Runs
    /\ \A r \in Runs :
         LET mine == EntriesOfRun(r)
         IN  /\ Len(mine) = ReturnedInvocations(r)
             /\ \A j \in 1..Len(mine) :
                  /\ mine[j].agent_name = AgentName(runs[r].sequence[j])
                  /\ mine[j].scenario = runs[r].scenario
                  /\ mine[j].output_data = DictGet(runs[r].results, runs[r].sequence[j])
                  /\ mine[j].success = mine[j].output_data.success

\* C12 witness: all runs have returned and the entries of two runs alternate
\* in the store.
C12_Witness ==
    /\ AllRunsDone
    /\ Len(shared_logs) >= 3
    /\ shared_logs[1].output_data.run = shared_logs[3].output_data.run
    /\ shared_logs[1].output_data.run # shared_logs[2].output_data.run

\* C13: a report is computed from one snapshot of the log: the analytics
\* figures and the detailed_logs of one returned report come from one and the
\* same set of entries, also when entries are appended meanwhile.
C13_ReportFromOneSnapshot ==
    reader.pc = "returned" =>
        reader.analytics = get_scenario_analytics(reader.seen, reader.scenario)

\* C14: export_scenario_report returns without raising, and detailed_logs are
\* the last min(10, n) entries of the scenario in append order, entries of
\* other scenarios never among them.
C14_ExportReturnsLastEntries ==
    /\ reader.pc # "raised"
    /\ reader.pc \in {"collected", "returned"} =>
         /\ reader.detailed_logs = LastN(reader.seen, DetailedLogLimit)
         /\ \A i \in 1..Len(reader.detailed_logs) :
              reader.detailed_logs[i].scenario = reader.scenario

\* every result in the mapping was produced by run r
OwnResultsOnly(d, r) == \A i \in 1..Len(d) : d[i][2].run = r

\* C17: a workflow context belongs to one run: the run starts with an empty
\* agent_results, and no result of another run, earlier or concurrent, is
\* ever in its workflow_context or previous_results.
C17_ContextOwnedByOneRun ==
    \A r \in Runs :
        /\ OwnResultsOnly(contexts[r], r)
        /\ OwnResultsOnly(runs[r].view, r)
        /\ (runs[r].pc = "await" /\ runs[r].idx = 1) =>
             (runs[r].view = <<>> /\ contexts[r] = <<>>)
        /\ \A j \in 1..Len(EntriesOfRun(r)) :
             /\ OwnResultsOnly(EntriesOfRun(r)[j].at_append.previous_results, r)
             /\ j = 1 => EntriesOfRun(r)[j].at_append.previous_results = <<>>

\* C17 witness: a compliance-only run awaits its first agent after a
\* copywriter-only run on the same engine has returned its result.
C17_Witness ==
    \E a, b \in Runs :
        /\ a # b
        /\ runs[a].mode = "engine" /\ runs[a].pc = "done"
        /\ runs[a].sequence = <<"copywriter">>
        /\ contexts[a] # <<>>
        /\ runs[b].mode = "engine" /\ runs[b].pc = "await" /\ runs[b].idx = 1
        /\ runs[b].sequence = <<"compliance">>

-----------------------------------------------------------------------------
(* Properties of single methods *)

Returned1(method) == call.method = method /\ ret # <<>>

\* the overrides the scenario table holds for the agent of the call
OverridesInTable ==
    IF call.scenario = "financial_renewal" /\ call.kind = "this_agent"
    THEN call.overrides ELSE <<>>

\* C15: adaptation resolution never fails; without overrides for the agent
\* (scenario unknown or no overrides) the result is the base defaults; else it
\* is the base defaults with every override applied, the override winning on
\* a shared key; the base defaults and the scenario table stay as they were.
C15_AdaptationsMerged ==
    Returned1("get_scenario_adaptations") =>
        LET got == ret[1].adaptations
            ov == OverridesInTable
        IN  /\ KeySet(got) = KeySet(call.base) \cup KeySet(ov)
            /\ Len(got) = Cardinality(KeySet(got))
            /\ \A k \in KeySet(ov) : DictGet(got, k) = DictGet(ov, k)
            /\ \A k \in KeySet(call.base) \ KeySet(ov) : DictGet(got, k) = DictGet(call.base, k)
            /\ ov = <<>> => got = call.base
            /\ ret[1].dynamic_adaptations = call.base
            /\ ret[1].scenarios = call.table

\* C15 witness: a known scenario overrides a key the base defaults hold too.
C15_Witness ==
    /\ Returned1("get_scenario_adaptations")
    /\ \E k \in KeySet(call.base) \cap KeySet(OverridesInTable) :
         /\ DictGet(ret[1].adaptations, k) = "scenario"
         /\ DictGet(call.base, k) = "base"
    /\ KeySet(call.base) \ KeySet(OverridesInTable) # {}

IsGatewayCall == call.method \in {"generate_completion", "generate_completion_sync"}

C19_FallbackMessages ==
    Returned1("fallback_message_parsing") =>
        LET messages == ret[1].messages
        IN  /\ ret[1].parsing_method = "fallback"
            /\ Len(messages) >= 3
            /\ \A i \in 1..Len(messages) :
                 /\ messages[i].message_id = i
                 /\ messages[i].features \in {<<"fallback_parsed">>, <<"auto_generated">>}
            /\ ret[1].total_generated = Len(messages)

\* C19 witness: one message was requested and one recovered from the text;
\* the parser filled the list up with generated messages.
C19_Witness ==
    /\ Returned1("fallback_message_parsing")
    /\ call.num_messages = 1
    /\ Len(ret[1].messages) = MinFallbackMessages
    /\ ret[1].messages[1].features = <<"fallback_parsed">>
    /\ ret[1].messages[MinFallbackMessages].features = <<"auto_generated">>

\* C20: on the parsed path the recomputed compliance_score is
\* max(0, 100 - 25 H - 10 M - 5 L) over the merged violations (reported ones,
\* then rule-based ones), whatever score was reported; it lies in 0..100;
\* risk_level is HIGH if H > 0, else MEDIUM if M > 0, else LOW.
C20_ComplianceScore ==
    Returned1("apply_rule_based_checks") =>
        LET merged == call.message_analysis.violations
                        \o RuleViolations(RuleSeverities(call.rule_set), call.matched, 1)
            H == CountOf(merged, "HIGH")
            M == CountOf(merged, "MEDIUM")
            L == CountOf(merged, "LOW")
            raw == 100 - 25 * H - 10 * M - 5 * L
        IN  /\ ret[1].violations = merged
            /\ ret[1].compliance_score = (IF raw < 0 THEN 0 ELSE raw)
            /\ ret[1].compliance_score \in 0..100
            /\ ret[1].risk_level = (IF H > 0 THEN "HIGH" ELSE IF M > 0 THEN "MEDIUM" ELSE "LOW")

\* C20 witness: so many HIGH violations that the score is cut at 0, against a
\* reported score of 100.
C20_Witness ==
    /\ Returned1("apply_rule_based_checks")
    /\ CountOf(ret[1].violations, "HIGH") * 25 > 100
    /\ ret[1].rule_based_checks_applied > 0
    /\ call.message_analysis.compliance_score = 100
    /\ ret[1].compliance_score = 0

-----------------------------------------------------------------------------
(* Properties of the compliance analysis *)

ComplianceReturned == call.method = "compliance_process_llm_response" /\ ret # <<>>

\* the result holds message analyses, and at least one
HasAnalyses(data) == "message_analyses" \in DOMAIN data /\ data.message_analyses # <<>>

CheckedMessages == MessagesToCheck(call.previous_messages, call.input_messages)

FinancialScenario == call.scenario \in {"insurance_renewal", "financial_renewal"}

IsGuaranteeRuleViolation(v) ==
    /\ v.type = "rule_based_check"
    /\ v.severity = "HIGH"
    /\ v.description = "No absolute guarantees"

HoldsGuaranteeRuleViolation(analysis) ==
    /\ \E k \in 1..Len(analysis.violations) : IsGuaranteeRuleViolation(analysis.violations[k])
    /\ analysis.compliance_score <= 75
    /\ analysis.risk_level = "HIGH"

FirstWithItsId(messages, i) ==
    \A j \in 1..(i - 1) : messages[j].message_id # messages[i].message_id

C27_FallbackScoreSameFormula ==
    (ComplianceReturned /\ call.reply.kind = "text") =>
        \A k \in 1..Len(ret[1].message_analyses) :
            LET a == ret[1].message_analyses[k]
                H == CountOf(SeveritiesOf(a.violations), "HIGH")
                M == CountOf(SeveritiesOf(a.violations), "MEDIUM")
                L == CountOf(SeveritiesOf(a.violations), "LOW")
                raw == 100 - 25 * H - 10 * M - 5 * L
            IN  a.compliance_score = (IF raw < 0 THEN 0 ELSE raw)

AnalysedHighViolation(data) ==
    \E k \in 1..Len(data.message_analyses) :
        \E j \in 1..Len(data.message_analyses[k].violations) :
            data.message_analyses[k].violations[j].severity = "HIGH"

AnalysedRisk(data, levels) ==
    \E k \in 1..Len(data.message_analyses) : data.message_analyses[k].risk_level \in levels

DeploymentRecommendation(data) ==
    Get(data.risk_metrics, "deployment_recommendation", "absent")

\* C30 (as stated): in a result with risk_metrics the recommendation is
\* APPROVED only if no analysed message has risk_level HIGH or MEDIUM and
\* overall_compliance is at least 80, and it is NOT_APPROVED whenever an
\* analysed message has a HIGH violation or overall_compliance is below 60.
C30_RecommendationInEveryRiskMetrics ==
    (ComplianceReturned /\ "risk_metrics" \in DOMAIN ret[1]) =>
        /\ DeploymentRecommendation(ret[1]) = "APPROVED" =>
             /\ ~AnalysedRisk(ret[1], {"HIGH", "MEDIUM"})
             /\ ret[1].overall_compliance >= 800
        /\ (AnalysedHighViolation(ret[1]) \/ ret[1].overall_compliance < 600) =>
             DeploymentRecommendation(ret[1]) = "NOT_APPROVED"

\* C30 (amended): risk_metrics carries a deployment_recommendation exactly
\* when a message was analysed; it is then APPROVED only if no analysed message
\* has risk_level HIGH or MEDIUM and overall_compliance is at least 80, and
\* NOT_APPROVED whenever an analysed message has a HIGH violation or
\* overall_compliance is below 60.  With no analysed message risk_metrics is
\* the overall_risk UNKNOWN alone, so nothing is APPROVED either.
C30_RecommendationWhenAnalysed ==
    (ComplianceReturned /\ "risk_metrics" \in DOMAIN ret[1]) =>
        /\ ("deployment_recommendation" \in DOMAIN ret[1].risk_metrics)
             <=> ret[1].message_analyses # <<>>
        /\ ret[1].message_analyses # <<>> =>
             /\ DeploymentRecommendation(ret[1]) = "APPROVED" =>
                  /\ ~AnalysedRisk(ret[1], {"HIGH", "MEDIUM"})
                  /\ ret[1].overall_compliance >= 800
             /\ (AnalysedHighViolation(ret[1]) \/ ret[1].overall_compliance < 600) =>
                  DeploymentRecommendation(ret[1]) = "NOT_APPROVED"
        /\ ret[1].message_analyses = <<>> => ret[1].risk_metrics = [overall_risk |-> "UNKNOWN"]

\* C30 witness: one of two analysed messages has a HIGH violation, the average
\* score is 80 or more, and the set is not approved.
C30_Witness ==
    /\ ComplianceReturned
    /\ "risk_metrics" \in DOMAIN ret[1]
    /\ Len(ret[1].message_analyses) = 2
    /\ AnalysedHighViolation(ret[1])
    /\ ret[1].message_analyses[1].risk_level = "LOW"
    /\ ret[1].overall_compliance >= 800
    /\ DeploymentRecommendation(ret[1]) = "NOT_APPROVED"

-----------------------------------------------------------------------------
(* Properties of the decision agent *)

RankingReturned == call.method = "calculate_message_ranking" /\ ret # <<>>

\* the analyses that stand for a message, in list order
ScoredMessages(message_analyses) == SelectSeq(message_analyses, LAMBDA a : DOMAIN a # {})

\* the composite score an analysis has in the call at hand
ScoreInCall(compliance_analysis) ==
    CompositeScore(compliance_analysis,
                   FeedbackLookup(call.feedback_data.message_feedback,
                                  compliance_analysis.message_id),
                   decision_weights(call.scenario))

\* C23: the ranking _calculate_message_ranking returns holds every analysed
\* message exactly once (its entries are the analyses in some order p), the
\* ranks are 1..n in list order, the composite scores do not rise along the
\* list, and entries of equal score keep the order of their analyses.
C23_RankingIsStableOrderOfAll ==
    RankingReturned =>
        LET ranking == ret[1]
            present == ScoredMessages(call.compliance_data.message_analyses)
            n == Len(present)
        IN  /\ Len(ranking) = n
            /\ \A i \in 1..n : ranking[i].rank = i
            /\ \A i \in 1..n : \A j \in (i + 1)..n :
                  ranking[i].composite_score >= ranking[j].composite_score
            /\ \E p \in [1..n -> 1..n] :
                  /\ \A i \in 1..n : \A j \in 1..n : i # j => p[i] # p[j]
                  /\ \A i \in 1..n :
                        /\ ranking[i].message_id = present[p[i]].message_id
                        /\ ranking[i].composite_score = ScoreInCall(present[p[i]])
                  /\ \A i \in 1..n : \A j \in (i + 1)..n :
                        ranking[i].composite_score = ranking[j].composite_score
                            => p[i] < p[j]

\* three messages ranked without feedback: the one analysed last has the
\* highest compliance score and comes first, the other two, of equal score,
\* follow in the order of their analyses
C23_Witness ==
    /\ RankingReturned
    /\ call.feedback_data.message_feedback = <<>>
    /\ Len(call.compliance_data.message_analyses) = 3
    /\ LET a == call.compliance_data.message_analyses
       IN  /\ \A i \in 1..3 : DOMAIN a[i] # {}
           /\ a[1].compliance_score = a[2].compliance_score
           /\ a[3].compliance_score > a[1].compliance_score
           /\ a[1].message_id # a[2].message_id
           /\ [i \in 1..3 |-> ret[1][i].message_id]
                = <<a[3].message_id, a[1].message_id, a[2].message_id>>
           /\ ret[1][1].composite_score > ret[1][2].composite_score
           /\ ret[1][2].composite_score = ret[1][3].composite_score
           /\ ret[1][3].rank = 3

DecisionReturned == call.method = "decision_process_llm_response" /\ ret # <<>>

\* the analyses the compliance stage supplied to the call at hand
SuppliedAnalyses ==
    Get(Get(Get(call.previous_results, "compliance", EmptyDict), "data", EmptyDict),
        "message_analyses", <<>>)

\* the reply is a JSON object
ValidReply == call.reply.kind = "object"

\* exactly one message was scored and it is the recommended one
OneMessageScored ==
    /\ ValidReply
    /\ Len(SuppliedAnalyses) = 1
    /\ "message_id" \in DOMAIN SuppliedAnalyses[1]
    /\ Get(call.reply.object, "recommended_message_id", 1) = SuppliedAnalyses[1].message_id

\* twelve hundred times the mean of the four confidence factors, for a
\* ranking-separation factor given in six-hundredths: the fraction of the
\* three upstream stages that ran and succeeded, the separation, 1.0 / 0.7 /
\* 0.3 for the risk LOW / MEDIUM / HIGH, and the confidence the reply states
\* (0.5 when it states none)
FactorSum(data, separation) ==
    200 * Cardinality({s \in {"copywriter", "compliance", "feedback"} :
                          /\ s \in DOMAIN call.previous_results
                          /\ call.previous_results[s].success})
    + separation
    + (IF data.risk_assessment = "LOW" THEN 600
       ELSE IF data.risk_assessment = "MEDIUM" THEN 420 ELSE 180)
    + 6 * Get(data, "confidence", 50)

\* decision_confidence (in hundredths) is the mean, to two decimals
IsRoundedMean(data, separation) ==
    /\ "decision_confidence" \in DOMAIN data
    /\ 24 * data.decision_confidence - FactorSum(data, separation) \in -12..12

EnhancedInCall ==
    enhance_decision_analysis(call.reply.object, call.previous_results, call.scenario)

\* (top - second) / 20 clamped to [0, 1], in six-hundredths, the scores
\* being counted in tenths
SeparationOf(ranking) ==
    LET gap == 3 * (ranking[1].composite_score - ranking[2].composite_score)
    IN  IF gap < 0 THEN 0 ELSE IF gap > 600 THEN 600 ELSE gap

\* C25: when the decision ranking has two entries or more, the confidence
\* calculation completes: decision_confidence is returned and is the mean
\* (to two decimals) of data completeness, the separation (top - second) / 20
\* clamped to [0, 1], the risk factor and the stated confidence.
C25_TwoRankedConfidenceCompletes ==
    (/\ DecisionReturned
     /\ ValidReply
     /\ ~RecommendedLookupRaises(call.reply.object, call.previous_results)
     /\ Len(EnhancedInCall.ranking) >= 2) =>
        /\ "error" \notin DOMAIN ret[1]
        /\ "ranking" \in DOMAIN ret[1]
        /\ ret[1].ranking = EnhancedInCall.ranking
        /\ IsRoundedMean(ret[1], SeparationOf(EnhancedInCall.ranking))

\* C26: a JSON object reply without a ranking, n >= 1 analyses supplied: the
\* data returned holds the ranking computed from the n analyses under the
\* scenario's weights, of n entries, and deployment_recommendations and
\* decision_confidence, for every n.
C26_OmittedRankingComputedForEveryN ==
    (/\ DecisionReturned
     /\ ValidReply
     /\ "ranking" \notin DOMAIN call.reply.object
     /\ SuppliedAnalyses # <<>>
     /\ \A i \in 1..Len(SuppliedAnalyses) : DOMAIN SuppliedAnalyses[i] # {}) =>
        /\ {"ranking", "deployment_recommendations", "decision_confidence"}
              \subseteq DOMAIN ret[1]
        /\ Len(ret[1].ranking) = Len(SuppliedAnalyses)
        /\ ret[1].ranking =
              calculate_message_ranking(ComplianceDataOf(call.previous_results),
                                        FeedbackDataOf(call.previous_results),
                                        call.scenario)

\* C29: whenever the compliance stage supplied analyses of messages, a
\* recommended_message_id in the data returned is the id of one of them.
C29_RecommendedIsAnalysed ==
    (/\ DecisionReturned
     /\ SuppliedAnalyses # <<>>
     /\ \A i \in 1..Len(SuppliedAnalyses) : DOMAIN SuppliedAnalyses[i] # {}
     /\ "recommended_message_id" \in DOMAIN ret[1]) =>
        \E i \in 1..Len(SuppliedAnalyses) :
            ret[1].recommended_message_id = SuppliedAnalyses[i].message_id

-----------------------------------------------------------------------------
(* Properties of the system prompt *)

PromptReturned == call.method = "generate_dynamic_system_prompt" /\ ret # <<>>

\* the keys of the substitution set of the call at hand
SubstitutionKeys == template_vars(call.input_keys, call.adaptation_keys, call.scenario)

\* C28: the rendered prompt has every slot of the template; each slot whose
\* key is in the substitution set is replaced by the value, each slot whose
\* key is absent by the literal N/A, however many are absent; no slot is left
\* unfilled.
C28_EverySlotFilled ==
    PromptReturned =>
        LET template == system_prompt_template(call.agent_type)
        IN  /\ Len(ret[1]) = Len(template)
            /\ \A i \in 1..Len(template) :
                  /\ ret[1][i].slot = template[i]
                  /\ template[i] \in SubstitutionKeys => ret[1][i].text = "value"
                  /\ template[i] \notin SubstitutionKeys => ret[1][i].text = "N/A"

====
